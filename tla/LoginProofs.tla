---------------------------- MODULE LoginProofs ----------------------------
(***************************************************************************)
(* Proofs about what the user holds, for any constants.  Part 1, Login: no *)
(* token and no code crosses to another control plane or login, and the    *)
(* stored session is that of the last command to end.  Part 2, ProjectKeys: *)
(* the project's own key stays one key.                                    *)
(***************************************************************************)
EXTENDS Login, ProjectKeys, TLAPS

(***************************************************************************)
(* Part 1.  Login, for any commands, control planes and number of faults.  *)
(* Neither property is inductive.  LoginInv adds what every command holds, *)
(* that whatever is stored says where it belongs (Home), that a login that *)
(* was issued nothing yet is nobody's token (Unissued), and, while one     *)
(* command at a time runs, where each step stands (Alone, Revoked).        *)
(***************************************************************************)
Steps == Ended \cup {"waiting", "exchange", "keep", "write", "rename", "revoke", "forget", "remove",
                     "refresh", "reload", "send"}
Procs == [at : Steps, base : Bases \cup {Nil}, code : Logins \cup {Nil}, conf : Configs \cup {Nil},
          token : Tokens \cup {Nil}]

(* Only a token of the CLI is left out of a config.json. *)
Shaped(conf) == conf \in Configs => (conf.token = Nil => conf.kind = "cli")
(* A token in a config.json is of the control plane that it names. *)
HomeConf(conf) == conf \in Configs => (conf.token # Nil => conf.token.base = conf.base)

OwnToken(c, b) == [base |-> b, by |-> c]

(* What a command c holds, whatever the others do. *)
CmdOK(c, p) ==
    /\ p.code \in {Nil, c} /\ Shaped(p.conf)
    /\ p.at \in {"waiting", "exchange", "keep"} => c \in Logins /\ p.base \in Bases
    /\ p.at = "keep" => p.token = OwnToken(c, p.base)
    /\ p.at \in {"write", "rename"} => c \in Logins \cup Requests /\ p.conf # Nil
    /\ p.at \in {"write", "rename"} /\ c \in Logins => HomeConf(p.conf) /\ p.conf.base = p.base /\ p.base \in Bases
    /\ p.at \in {"revoke", "forget"} => c \in Logouts /\ p.conf # Nil /\ p.conf.kind = "cli"
    /\ p.at = "remove" => c \in Logouts
    /\ p.at \in {"refresh", "reload", "send"} => c \in Requests
    /\ c \in Requests /\ p.at \notin Ended => p.token # Nil /\ p.base \in Bases

CmdsTyped == cmd \in [Cmds -> Procs] /\ \A c \in Cmds : CmdOK(c, cmd[c])

StoredTyped ==
    /\ config \in Files /\ Shaped(config) /\ tmp \in Files /\ Shaped(tmp)
    /\ keychain \in [Bases -> Tokens \cup {Nil}] /\ \A b \in Bases : keychain[b] # Nil => keychain[b].base = b
    /\ live \subseteq Tokens /\ last \in [token : Tokens \cup {Nil}, slips : SUBSET Cmds]
    /\ inbox \in [Logins -> [result : Logins \cup {Nil}, err : BOOLEAN]]
    /\ \A c \in Logins : inbox[c].result \in {Nil, c}

Typed == CmdsTyped /\ StoredTyped

(* Unless a command met a request that was refreshing its token, whatever  *)
(* is stored, sent, or about to be, is of the control plane it is for; a   *)
(* logout may name another one.                                            *)
Rewriting == {"refresh", "reload", "write", "rename"}
RequestHome(c) ==
    /\ Active(c) => cmd[c].token.base = cmd[c].base
    /\ cmd[c].at \in {"write", "rename"} => HomeConf(cmd[c].conf)
    /\ cmd[c].at \in {"refresh", "reload"} => config \in Configs /\ config.base = cmd[c].base
    /\ cmd[c].at \in Rewriting => \A d \in Cmds : Active(d) => d = c
LogoutHome(c) == At(c, "revoke") => HomeConf(cmd[c].conf)
Home ==
    "refresh" \notin marks =>
        /\ HomeConf(config) /\ HomeConf(tmp) /\ TokenGoesHome
        /\ \A c \in Requests : RequestHome(c)
        /\ \A c \in Logouts : LogoutHome(c)

(* A login that was issued nothing yet is not in anybody's token. *)
NotOf(c, token) == token # Nil => token.by # c
NoneOf(c, conf) == conf \in Configs => NotOf(c, conf.token)
Unissued ==
    \A c \in Logins : cmd[c].at \in {"idle", "waiting", "exchange"} =>
        /\ NoneOf(c, config) /\ NoneOf(c, tmp) /\ \A b \in Bases : NotOf(c, keychain[b])
        /\ \A d \in Cmds : NotOf(c, cmd[d].token) /\ NoneOf(c, cmd[d].conf)

(* While commands run one at a time and none is killed: what is stored is  *)
(* the session of the last one to succeed, and, while this one changes it, *)
(* as if it was to fail.                                                   *)
Consistent == Session(last.slips)
Changing(c) == (c \in Logins /\ cmd[c].at \in {"write", "rename"}) \/ At(c, "remove")
Phase(c) ==
    /\ c \in Logins /\ cmd[c].at \in {"write", "rename"} =>
           Resolve(cmd[c].conf) = OwnToken(c, cmd[c].base)
    /\ Changing(c) => Session(Slips(c))
    /\ At(c, "rename") => tmp = cmd[c].conf
    /\ cmd[c].at \in {"refresh", "reload"} =>
           config \in Configs /\ config.kind = "firebase" /\ cmd[c].token = config.token
    /\ c \in Requests /\ cmd[c].at \in {"write", "rename"} =>
           /\ config \in Configs /\ Resolve(cmd[c].conf) = Resolve(config)
           /\ cmd[c].conf.base = config.base
    /\ cmd[c].at \in {"revoke", "forget"} =>
           cmd[c].conf = config /\ cmd[c].token = Resolve(config) /\ Consistent
Alone ==
    Quiet({"overlap", "killed"}) =>
        /\ \A c, d \in Cmds : Active(c) /\ Active(d) => c = d
        /\ (\A c \in Cmds : ~Changing(c)) => Consistent
        /\ \A c \in Cmds : Phase(c)

(* What a logout has revoked stays so. *)
Revoked ==
    Quiet({"overlap", "killed", "unrevoked"}) =>
        \A c \in Logouts : cmd[c].at \in {"forget", "remove", "done"} => cmd[c].token \notin live

LoginInv == Typed /\ Home /\ Unissued /\ Alone /\ Revoked

-----------------------------------------------------------------------------
(* What a step does to the commands.                                       *)
Others(c) == cmd' \in [Cmds -> Procs] /\ \A d \in Cmds : d # c => cmd'[d] = cmd[d]

LEMMA CmdsAre == Logins \subseteq Cmds /\ Logouts \subseteq Cmds /\ Requests \subseteq Cmds
BY DEF Cmds

LEMMA StepsAre ==
    /\ {"idle", "done", "failed", "killed"} \subseteq Steps
    /\ {"waiting", "exchange", "keep", "write", "rename", "revoke", "forget", "remove",
        "refresh", "reload", "send"} \subseteq Steps \ Ended
BY DEF Steps, Ended

LEMMA Holds ==
    ASSUME CmdsTyped, NEW c \in Cmds
    PROVE  /\ cmd[c] \in Procs /\ CmdOK(c, cmd[c]) /\ cmd[c].at \in Steps /\ cmd[c].base \in Bases \cup {Nil}
           /\ cmd[c].code \in Logins \cup {Nil} /\ cmd[c].conf \in Configs \cup {Nil}
           /\ cmd[c].token \in Tokens \cup {Nil}
BY DEF CmdsTyped, Procs

LEMMA SetIs ==
    ASSUME CmdsTyped, NEW c \in Cmds, NEW r \in Procs, Set(c, r)
    PROVE  Others(c) /\ cmd'[c] = r
BY DEF CmdsTyped, Set, Others

LEMMA GoIs ==
    ASSUME CmdsTyped, NEW c \in Cmds, NEW step \in Steps, Go(c, step)
    PROVE  /\ Others(c) /\ cmd'[c].at = step /\ cmd'[c].base = cmd[c].base /\ cmd'[c].code = cmd[c].code
           /\ cmd'[c].conf = cmd[c].conf /\ cmd'[c].token = cmd[c].token
<1> DEFINE r == [cmd[c] EXCEPT !.at = step]
<1>1. /\ r \in Procs /\ r.at = step /\ r.base = cmd[c].base /\ r.code = cmd[c].code
      /\ r.conf = cmd[c].conf /\ r.token = cmd[c].token
  BY Holds DEF Procs
<1>2. Set(c, r)
  BY DEF Go, Set
<1> HIDE DEF r
<1> QED
  BY <1>1, <1>2, SetIs

LEMMA FreshIs ==
    /\ Fresh \in Procs /\ Fresh.at = "idle" /\ Fresh.base = Nil /\ Fresh.code = Nil
    /\ Fresh.conf = Nil /\ Fresh.token = Nil
BY StepsAre DEF Fresh, Procs

LEMMA EndIs ==
    ASSUME CmdsTyped, NEW c \in Cmds, NEW how \in Steps, End(c, how)
    PROVE  /\ Others(c) /\ cmd'[c].at = how /\ cmd'[c].base = Nil /\ cmd'[c].code = Nil
           /\ cmd'[c].conf = Nil /\ cmd'[c].token = Nil
<1> DEFINE r == [Fresh EXCEPT !.at = how]
<1>1. /\ r \in Procs /\ r.at = how /\ r.base = Nil /\ r.code = Nil /\ r.conf = Nil /\ r.token = Nil
  BY FreshIs DEF Procs
<1>2. Set(c, r)
  BY DEF End
<1> HIDE DEF r
<1> QED
  BY <1>1, <1>2, SetIs

LEMMA ResolveIs ==
    ASSUME StoredTyped, NEW conf \in Configs
    PROVE  /\ Resolve(conf) \in Tokens \cup {Nil}
           /\ HomeConf(conf) => (Resolve(conf) # Nil => Resolve(conf).base = conf.base)
<1>1. conf.kind \in Kinds /\ conf.base \in Bases /\ conf.token \in Tokens \cup {Nil}
  BY DEF Configs
<1>2. CASE conf.kind = "cli" /\ conf.token = Nil
  <2>1. Resolve(conf) = keychain[conf.base]
    BY <1>2 DEF Resolve
  <2> QED
    BY <1>1, <2>1 DEF StoredTyped
<1>3. CASE ~(conf.kind = "cli" /\ conf.token = Nil)
  <2>1. Resolve(conf) = conf.token
    BY <1>3 DEF Resolve
  <2>2. HomeConf(conf) => (conf.token # Nil => conf.token.base = conf.base)
    BY DEF HomeConf
  <2> QED
    BY <1>1, <2>1, <2>2
<1> QED
  BY <1>2, <1>3

LEMMA LoadedIs ==
    ASSUME StoredTyped
    PROVE  /\ Loaded \in Configs \cup {Nil} /\ (Loaded # Nil => Loaded = config /\ config \in Configs)
           /\ config \in Configs => Loaded = config /\ Loaded # Nil
           /\ Nil \notin Configs /\ Torn \notin Configs
BY LoginAssumption DEF StoredTyped, Loaded, Files

(* A save that fails sends a request on its way and ends a login.          *)
LEMMA SaveFailsIs ==
    ASSUME CmdsTyped, NEW c \in Cmds, SaveFails(c)
    PROVE  /\ Others(c) /\ cmd'[c].conf \in {cmd[c].conf, Nil} /\ cmd'[c].token \in {cmd[c].token, Nil}
           /\ c \in Requests => /\ cmd'[c].at = "send" /\ cmd'[c].base = cmd[c].base /\ cmd'[c].code = cmd[c].code
                                /\ cmd'[c].conf = cmd[c].conf /\ cmd'[c].token = cmd[c].token /\ last' = last
           /\ c \notin Requests => /\ cmd'[c].at = "failed" /\ cmd'[c].base = Nil /\ cmd'[c].code = Nil
                                   /\ cmd'[c].conf = Nil /\ cmd'[c].token = Nil
                                   /\ last' = [last EXCEPT !.slips = Slips(c)]
<1>1. CASE c \in Requests
  BY <1>1, GoIs, StepsAre DEF SaveFails
<1>2. CASE c \notin Requests
  BY <1>2, EndIs, StepsAre DEF SaveFails
<1> QED
  BY <1>1, <1>2

LEMMA StartLoginIs ==
    ASSUME CmdsTyped, NEW c \in Cmds, StartLogin(c)
    PROVE  \E b \in Bases : Others(c) /\ cmd'[c].at = "waiting" /\ cmd'[c].base = b /\ cmd'[c].code = Nil /\ cmd'[c].conf = Nil /\ cmd'[c].token = Nil
<1>1. PICK b \in Bases : Set(c, [Fresh EXCEPT !.at = "waiting", !.base = b])
  BY DEF StartLogin
<1> DEFINE r == [Fresh EXCEPT !.at = "waiting", !.base = b]
<1>2. r \in Procs /\ r.at = "waiting" /\ r.base = b /\ r.code = Nil /\ r.conf = Nil /\ r.token = Nil
  BY FreshIs, StepsAre DEF Procs
<1>3. Set(c, r)
  BY <1>1 DEF Set
<1> HIDE DEF r
<1>4. Others(c) /\ cmd'[c] = r
  BY <1>2, <1>3, SetIs
<1> QED
  BY <1>2, <1>4

LEMMA PasteTokenIs ==
    ASSUME CmdsTyped, NEW c \in Logins, PasteToken(c)
    PROVE  \E b \in Bases :
              /\ live' = live \cup {OwnToken(c, b)} /\ OwnToken(c, b) \in Tokens
              /\ Others(c) /\ cmd'[c].at = "write" /\ cmd'[c].base = b /\ cmd'[c].code = Nil /\ cmd'[c].conf = [kind |-> "operator", base |-> b, token |-> OwnToken(c, b)] /\ cmd'[c].token = Nil
<1> c \in Cmds
  BY CmdsAre
<1>1. PICK b \in Bases :
        /\ live' = live \cup {[base |-> b, by |-> c]}
        /\ Set(c, [Fresh EXCEPT !.at = "write", !.base = b,
                   !.conf = [kind |-> "operator", base |-> b, token |-> [base |-> b, by |-> c]]])
  BY DEF PasteToken
<1> DEFINE conf == [kind |-> "operator", base |-> b, token |-> OwnToken(c, b)]
<1>5. OwnToken(c, b) \in Tokens
  BY DEF OwnToken, Tokens
<1>6. conf \in Configs
  BY <1>5 DEF Configs, Kinds
<1>7. Set(c, [Fresh EXCEPT !.at = "write", !.base = b, !.conf = conf])
  BY <1>1 DEF OwnToken
<1> HIDE DEF conf
<1> DEFINE r == [Fresh EXCEPT !.at = "write", !.base = b, !.conf = conf]
<1>2. r \in Procs /\ r.at = "write" /\ r.base = b /\ r.code = Nil /\ r.conf = conf /\ r.token = Nil
  BY <1>6, FreshIs, StepsAre DEF Procs
<1>3. Set(c, r)
  BY <1>7 DEF Set
<1> HIDE DEF r
<1>4. Others(c) /\ cmd'[c] = r
  BY <1>2, <1>3, SetIs
<1> QED
  BY <1>1, <1>2, <1>4, <1>5 DEF conf, OwnToken

LEMMA ReceiveIs ==
    ASSUME CmdsTyped, StoredTyped, NEW c \in Logins, Receive(c)
    PROVE  /\ Others(c) /\ cmd'[c].at = "exchange" /\ cmd'[c].base = cmd[c].base /\ cmd'[c].code = inbox[c].result /\ cmd'[c].conf = cmd[c].conf /\ cmd'[c].token = cmd[c].token
           /\ inbox[c].result = c
<1> c \in Cmds
  BY CmdsAre
<1>1. inbox[c].result = c
  BY DEF Receive, StoredTyped
<1> DEFINE r == [cmd[c] EXCEPT !.at = "exchange", !.code = inbox[c].result]
<1>2. r \in Procs /\ r.at = "exchange" /\ r.base = cmd[c].base /\ r.code = inbox[c].result /\ r.conf = cmd[c].conf /\ r.token = cmd[c].token
  BY ZenonT(30), <1>1, Holds, StepsAre DEF Procs
<1>3. Set(c, r)
  BY DEF Receive
<1> HIDE DEF r
<1>4. Others(c) /\ cmd'[c] = r
  BY <1>2, <1>3, SetIs
<1> QED
  BY <1>1, <1>2, <1>4

LEMMA ExchangeIs ==
    ASSUME CmdsTyped, NEW c \in Logins, Exchange(c)
    PROVE  /\ live' \in {live, live \cup {OwnToken(c, cmd[c].base)}} /\ OwnToken(c, cmd[c].base) \in Tokens
           /\ \/ Others(c) /\ cmd'[c].at = "keep" /\ cmd'[c].base = cmd[c].base /\ cmd'[c].code = cmd[c].code /\ cmd'[c].conf = cmd[c].conf /\ cmd'[c].token = OwnToken(c, cmd[c].base)
              \/ Others(c) /\ cmd'[c].at = "failed" /\ cmd'[c].base = Nil /\ cmd'[c].code = Nil /\ cmd'[c].conf = Nil /\ cmd'[c].token = Nil
<1> c \in Cmds
  BY CmdsAre
<1>1. OwnToken(c, cmd[c].base) \in Tokens
  BY Holds DEF Exchange, At, CmdOK, OwnToken, Tokens
<1>5. live' \in {live, live \cup {OwnToken(c, cmd[c].base)}}
  BY DEF Exchange, OwnToken
<1>6. CASE End(c, "failed")
  BY <1>1, <1>5, <1>6, EndIs, StepsAre
<1>7. CASE Set(c, [cmd[c] EXCEPT !.at = "keep", !.token = OwnToken(c, cmd[c].base)])
  <2> DEFINE r == [cmd[c] EXCEPT !.at = "keep", !.token = OwnToken(c, cmd[c].base)]
  <2>2. r \in Procs /\ r.at = "keep" /\ r.base = cmd[c].base /\ r.code = cmd[c].code /\ r.conf = cmd[c].conf /\ r.token = OwnToken(c, cmd[c].base)
    BY <1>1, Holds, StepsAre DEF Procs
  <2>3. Set(c, r)
    BY <1>7 DEF Set
  <2> HIDE DEF r
  <2>4. Others(c) /\ cmd'[c] = r
    BY <2>2, <2>3, SetIs
  <2> QED
    BY <1>1, <1>5, <2>2, <2>4
<1> QED
  BY <1>6, <1>7 DEF Exchange, OwnToken

LEMMA KeepIs ==
    ASSUME CmdsTyped, StoredTyped, NEW c \in Cmds, Keep(c)
    PROVE  \E token \in {Nil, cmd[c].token} : \E conf \in Configs :
              /\ conf = [kind |-> "cli", base |-> cmd[c].base, token |-> token]
              /\ keychain' = IF token = Nil THEN [keychain EXCEPT ![cmd[c].base] = cmd[c].token] ELSE keychain
              /\ Others(c) /\ cmd'[c].at = "write" /\ cmd'[c].base = cmd[c].base /\ cmd'[c].code = cmd[c].code /\ cmd'[c].conf = conf /\ cmd'[c].token = cmd[c].token
<1>1. /\ c \in Logins /\ cmd[c].base \in Bases /\ cmd[c].token = OwnToken(c, cmd[c].base) /\ cmd[c].token \in Tokens
      /\ cmd[c].token # Nil
  <2>1. c \in Logins /\ cmd[c].base \in Bases /\ cmd[c].token = OwnToken(c, cmd[c].base)
    BY Holds DEF Keep, At, CmdOK
  <2> QED
    BY <2>1, LoginAssumption DEF OwnToken, Tokens
<1>5. PICK token \in {Nil, cmd[c].token} :
        /\ keychain' = IF token = Nil THEN [keychain EXCEPT ![cmd[c].base] = cmd[c].token] ELSE keychain
        /\ Set(c, [cmd[c] EXCEPT !.at = "write", !.conf = [kind |-> "cli", base |-> cmd[c].base, token |-> token]])
  BY <1>1 DEF Keep
<1> DEFINE conf == [kind |-> "cli", base |-> cmd[c].base, token |-> token]
<1>6. conf \in Configs
  BY <1>1, <1>5 DEF Configs, Kinds
<1>7. Set(c, [cmd[c] EXCEPT !.at = "write", !.conf = conf])
  BY <1>5
<1>8. conf = [kind |-> "cli", base |-> cmd[c].base, token |-> token]
  OBVIOUS
<1> HIDE DEF conf
<1> DEFINE r == [cmd[c] EXCEPT !.at = "write", !.conf = conf]
<1>2. r \in Procs /\ r.at = "write" /\ r.base = cmd[c].base /\ r.code = cmd[c].code /\ r.conf = conf /\ r.token = cmd[c].token
  BY <1>6, Holds, StepsAre DEF Procs
<1>3. Set(c, r)
  BY <1>7 DEF Set
<1> HIDE DEF r
<1>4. Others(c) /\ cmd'[c] = r
  BY <1>2, <1>3, SetIs
<1> QED
  BY <1>5, <1>6, <1>8, <1>2, <1>4

LEMMA StartLogoutIs ==
    ASSUME CmdsTyped, StoredTyped, NEW c \in Cmds, StartLogout(c)
    PROVE  \E token \in Tokens \cup {Nil}, at \in {"revoke", "remove"} :
              /\ at = "revoke" => Loaded # Nil /\ Loaded.kind = "cli" /\ token = Resolve(Loaded)
              /\ at = "remove" => token = Nil /\ (Loaded # Nil => Loaded.kind # "cli")
              /\ Others(c) /\ cmd'[c].at = at /\ cmd'[c].base = Nil /\ cmd'[c].code = Nil /\ cmd'[c].conf = Loaded /\ cmd'[c].token = token
<1> DEFINE token == IF Loaded = Nil THEN Nil ELSE IF Loaded.kind = "cli" THEN Resolve(Loaded) ELSE Nil
           at == IF Loaded = Nil THEN "remove" ELSE IF Loaded.kind = "cli" THEN "revoke" ELSE "remove"
<1>5. Loaded \in Configs \cup {Nil}
  BY LoadedIs
<1>1. /\ token \in Tokens \cup {Nil} /\ at \in {"revoke", "remove"}
      /\ at = "revoke" => Loaded # Nil /\ Loaded.kind = "cli" /\ token = Resolve(Loaded)
      /\ at = "remove" => token = Nil /\ (Loaded # Nil => Loaded.kind # "cli")
  BY <1>5, ResolveIs
<1>6. Set(c, [Fresh EXCEPT !.conf = Loaded, !.token = token, !.at = at])
  BY DEF StartLogout
<1> HIDE DEF token, at
<1> DEFINE r == [Fresh EXCEPT !.conf = Loaded, !.token = token, !.at = at]
<1>2. r \in Procs /\ r.at = at /\ r.base = Nil /\ r.code = Nil /\ r.conf = Loaded /\ r.token = token
  BY <1>1, <1>5, FreshIs, StepsAre DEF Procs
<1>3. Set(c, r)
  BY <1>6 DEF Set
<1> HIDE DEF r
<1>4. Others(c) /\ cmd'[c] = r
  BY <1>2, <1>3, SetIs
<1> QED
  BY <1>1, <1>2, <1>4

(* config.json is removed, or it is not and the logout slips.              *)
LEMMA RemoveIs ==
    ASSUME CmdsTyped, NEW c \in Cmds, Remove(c)
    PROVE  /\ Others(c) /\ cmd'[c].at \in {"done", "failed"} /\ cmd'[c].base = Nil /\ cmd'[c].code = Nil
           /\ cmd'[c].conf = Nil /\ cmd'[c].token \in {cmd[c].token, Nil} /\ UNCHANGED <<tmp, keychain, live, inbox, sent, marks>>
           /\ cmd'[c].at = "done" => config' = Nil /\ last' = [token |-> Nil, slips |-> {}] /\ cmd'[c].token = cmd[c].token
           /\ cmd'[c].at = "failed" => config' = config /\ last' = [last EXCEPT !.slips = Slips(c)]
<1>1. cmd[c].token \in Tokens \cup {Nil}
  BY Holds
<1> DEFINE r == [Fresh EXCEPT !.at = "done", !.token = cmd[c].token]
<1>2. r \in Procs /\ r.at = "done" /\ r.base = Nil /\ r.code = Nil /\ r.conf = Nil /\ r.token = cmd[c].token
  BY <1>1, FreshIs, StepsAre DEF Procs
<1>3. CASE Set(c, r) /\ config' = Nil /\ last' = [token |-> Nil, slips |-> {}]
  <2> HIDE DEF r
  <2>1. Others(c) /\ cmd'[c] = r
    BY <1>2, <1>3, SetIs
  <2> QED
    BY <1>2, <1>3, <2>1 DEF Remove
<1>4. CASE End(c, "failed") /\ config' = config /\ last' = [last EXCEPT !.slips = Slips(c)]
  BY <1>4, EndIs, StepsAre DEF Remove
<1> QED
  BY <1>3, <1>4 DEF Remove

LEMMA StartRequestIs ==
    ASSUME CmdsTyped, StoredTyped, NEW c \in Cmds, StartRequest(c)
    PROVE  \E b \in Bases, at \in {"failed", "refresh", "send"} :
              /\ config \in Configs
              /\ at # "failed" => Resolve(config) # Nil /\ config.base = b
              /\ at = "refresh" => config.kind = "firebase"
              /\ Others(c) /\ cmd'[c].at = at /\ cmd'[c].base = b /\ cmd'[c].code = Nil /\ cmd'[c].conf = config /\ cmd'[c].token = Resolve(config)
<1>0. Loaded = config /\ config \in Configs
  BY LoadedIs DEF StartRequest
<1>1. PICK b \in Bases :
        Set(c, [Fresh EXCEPT !.base = b, !.conf = config, !.token = Resolve(config),
                !.at = IF Resolve(config) = Nil \/ config.base # b THEN "failed"
                       ELSE IF config.kind = "firebase" THEN "refresh" ELSE "send"])
  BY <1>0 DEF StartRequest
<1> DEFINE at == IF Resolve(config) = Nil \/ config.base # b THEN "failed"
                 ELSE IF config.kind = "firebase" THEN "refresh" ELSE "send"
<1>5. /\ at \in {"failed", "refresh", "send"}
      /\ at # "failed" => Resolve(config) # Nil /\ config.base = b
      /\ at = "refresh" => config.kind = "firebase"
  OBVIOUS
<1>6. config \in Configs /\ Resolve(config) \in Tokens \cup {Nil}
  BY <1>0, ResolveIs
<1>7. Set(c, [Fresh EXCEPT !.base = b, !.conf = config, !.token = Resolve(config), !.at = at])
  BY <1>1
<1> HIDE DEF at
<1> DEFINE r == [Fresh EXCEPT !.base = b, !.conf = config, !.token = Resolve(config), !.at = at]
<1>2. r \in Procs /\ r.at = at /\ r.base = b /\ r.code = Nil /\ r.conf = config /\ r.token = Resolve(config)
  BY <1>5, <1>6, FreshIs, StepsAre DEF Procs
<1>3. Set(c, r)
  BY <1>7 DEF Set
<1> HIDE DEF r
<1>4. Others(c) /\ cmd'[c] = r
  BY <1>2, <1>3, SetIs
<1> QED
  BY <1>2, <1>4, <1>5, <1>6

LEMMA ReloadIs ==
    ASSUME CmdsTyped, StoredTyped, NEW c \in Cmds, Reload(c), Loaded # Nil
    PROVE  \E conf \in Configs :
              /\ config \in Configs /\ conf.kind = "firebase" /\ conf.base = config.base /\ conf.token = cmd[c].token
              /\ Others(c) /\ cmd'[c].at = "write" /\ cmd'[c].base = cmd[c].base /\ cmd'[c].code = cmd[c].code /\ cmd'[c].conf = conf /\ cmd'[c].token = cmd[c].token
<1> DEFINE conf == [config EXCEPT !.kind = "firebase", !.token = cmd[c].token]
<1>0. Loaded = config /\ config \in Configs
  BY LoadedIs
<1>1. /\ conf \in Configs /\ conf.kind = "firebase" /\ conf.base = config.base
      /\ conf.token = cmd[c].token
  BY <1>0, Holds DEF Configs, Kinds
<1>5. Set(c, [cmd[c] EXCEPT !.at = "write", !.conf = conf])
  BY <1>0 DEF Reload
<1> HIDE DEF conf
<1> DEFINE r == [cmd[c] EXCEPT !.at = "write", !.conf = conf]
<1>2. r \in Procs /\ r.at = "write" /\ r.base = cmd[c].base /\ r.code = cmd[c].code /\ r.conf = conf /\ r.token = cmd[c].token
  BY <1>1, Holds, StepsAre DEF Procs
<1>3. Set(c, r)
  BY <1>5 DEF Set
<1> HIDE DEF r
<1>4. Others(c) /\ cmd'[c] = r
  BY <1>2, <1>3, SetIs
<1> QED
  BY <1>0, <1>1, <1>2, <1>4

-----------------------------------------------------------------------------
(* Typed is inductive by itself.                                           *)
LEMMA CmdsKeep ==
    ASSUME CmdsTyped, NEW c \in Cmds, Others(c), CmdOK(c, cmd'[c])
    PROVE  CmdsTyped'
BY DEF CmdsTyped, Others

(* A command that has ended holds nothing but, maybe, a token. *)
LEMMA EndedIsOK ==
    ASSUME NEW c \in Cmds, NEW p, p.at \in Ended, p.code = Nil, p.conf = Nil
    PROVE  CmdOK(c, p)
BY LoginAssumption DEF CmdOK, Ended, Shaped

LEMMA CmdsTypedKeeps ==
    ASSUME Typed, NEW c \in Cmds,
           \/ Step(c) \/ Kill(c) \/ StartLogout(c) \/ StartRequest(c)
           \/ c \in Logins /\ (StartLogin(c) \/ PasteToken(c) \/ Handle(c))
    PROVE  CmdsTyped'
<1> USE DEF Typed
<1>1. CASE c \in Logins /\ StartLogin(c)
  <2>1. PICK b \in Bases : Others(c) /\ cmd'[c].at = "waiting" /\ cmd'[c].base = b /\ cmd'[c].code = Nil
                           /\ cmd'[c].conf = Nil /\ cmd'[c].token = Nil
    BY <1>1, StartLoginIs
  <2>2. CmdOK(c, cmd'[c])
    BY <1>1, <2>1, LoginAssumption DEF CmdOK, Shaped
  <2> QED
    BY <2>1, <2>2, CmdsKeep
<1>2. CASE c \in Logins /\ PasteToken(c)
  <2>1. PICK b \in Bases :
           /\ OwnToken(c, b) \in Tokens /\ Others(c) /\ cmd'[c].at = "write" /\ cmd'[c].base = b
           /\ cmd'[c].code = Nil /\ cmd'[c].token = Nil
           /\ cmd'[c].conf = [kind |-> "operator", base |-> b, token |-> OwnToken(c, b)]
    BY <1>2, PasteTokenIs
  <2>2. cmd'[c].conf # Nil /\ cmd'[c].conf.token = OwnToken(c, b) /\ cmd'[c].conf.base = b /\ OwnToken(c, b).base = b
    <3>1. [kind |-> "operator", base |-> b, token |-> OwnToken(c, b)] \in Configs
      BY <2>1 DEF Configs, Kinds
    <3> QED
      BY <2>1, <3>1, LoginAssumption DEF OwnToken
  <2>3. CmdOK(c, cmd'[c])
    BY <1>2, <2>1, <2>2, LoginAssumption DEF CmdOK, Shaped, HomeConf
  <2> QED
    BY <2>1, <2>3, CmdsKeep
<1>3. CASE c \in Logins /\ Handle(c)
  BY <1>3 DEF Handle, CmdsTyped
<1>4. CASE Receive(c)
  <2>1. c \in Logins
    BY <1>4, Holds DEF Receive, At, CmdOK
  <2>2. Others(c) /\ cmd'[c].at = "exchange" /\ cmd'[c].code = c /\ cmd'[c].conf = cmd[c].conf /\ cmd'[c].base = cmd[c].base
    BY <1>4, <2>1, ReceiveIs
  <2>3. CmdOK(c, cmd'[c])
    BY <1>4, <2>1, <2>2, Holds, LoginAssumption DEF Receive, At, CmdOK
  <2> QED
    BY <2>2, <2>3, CmdsKeep
<1>5. CASE GiveUp(c) \/ Send(c) \/ Kill(c)
  <2>1. PICK how \in Ended : End(c, how)
    BY <1>5 DEF GiveUp, Send, Kill, Ended
  <2>2. how \in Steps
    BY StepsAre DEF Ended
  <2>3. Others(c) /\ cmd'[c].at \in Ended /\ cmd'[c].code = Nil /\ cmd'[c].conf = Nil
    BY <2>1, <2>2, EndIs
  <2> QED
    BY <2>3, EndedIsOK, CmdsKeep
<1>6. CASE Exchange(c)
  <2>1. c \in Logins
    BY <1>6, Holds DEF Exchange, At, CmdOK
  <2>2. CASE /\ Others(c) /\ cmd'[c].at = "keep" /\ cmd'[c].token = OwnToken(c, cmd[c].base)
             /\ cmd'[c].code = cmd[c].code /\ cmd'[c].conf = cmd[c].conf /\ cmd'[c].base = cmd[c].base
    <3>1. CmdOK(c, cmd'[c])
      BY <1>6, <2>1, <2>2, Holds, LoginAssumption DEF Exchange, At, CmdOK
    <3> QED
      BY <2>2, <3>1, CmdsKeep
  <2>3. CASE Others(c) /\ cmd'[c].at = "failed" /\ cmd'[c].code = Nil /\ cmd'[c].conf = Nil
    BY <2>3, EndedIsOK, CmdsKeep DEF Ended
  <2> QED
    BY <1>6, <2>1, <2>2, <2>3, ExchangeIs
<1>7. CASE Keep(c)
  <2>1. PICK token \in {Nil, cmd[c].token} : \E conf \in Configs :
           /\ conf = [kind |-> "cli", base |-> cmd[c].base, token |-> token]
           /\ Others(c) /\ cmd'[c].at = "write" /\ cmd'[c].base = cmd[c].base /\ cmd'[c].code = cmd[c].code
           /\ cmd'[c].conf = conf
    BY <1>7, KeepIs
  <2>2. /\ Others(c) /\ cmd'[c].at = "write" /\ cmd'[c].base = cmd[c].base /\ cmd'[c].code = cmd[c].code
        /\ cmd'[c].conf \in Configs /\ cmd'[c].conf.kind = "cli" /\ cmd'[c].conf.base = cmd[c].base
        /\ cmd'[c].conf.token = token
    BY <2>1
  <2>3. c \in Logins /\ cmd[c].token.base = cmd[c].base /\ cmd[c].base \in Bases
    <3>1. c \in Logins /\ cmd[c].token = OwnToken(c, cmd[c].base) /\ cmd[c].base \in Bases
      BY <1>7, Holds DEF Keep, At, CmdOK
    <3> QED
      BY <3>1 DEF OwnToken
  <2>4. CmdOK(c, cmd'[c])
    BY <2>2, <2>3, Holds, LoginAssumption DEF CmdOK, Shaped, HomeConf
  <2> QED
    BY <2>2, <2>4, CmdsKeep
<1>8. CASE SaveFails(c)
  <2>1. CASE c \in Requests
    <3>1. CmdOK(c, cmd'[c]) /\ Others(c)
      BY <1>8, <2>1, Holds, SaveFailsIs DEF SaveFails, CmdOK, Ended
    <3> QED
      BY <3>1, CmdsKeep
  <2>2. CASE c \notin Requests
    BY <1>8, <2>2, SaveFailsIs, EndedIsOK, CmdsKeep DEF Ended
  <2> QED
    BY <2>1, <2>2
<1>9. CASE Write(c) \/ Rename(c)
  <2>1. CASE Write(c) \/ c \in Requests
    <3>1. PICK step \in {"rename", "send"} : Go(c, step) /\ (step = "send" => c \in Requests) /\ cmd[c].at \in {"write", "rename"}
      BY <1>9, <2>1 DEF Write, Rename, At
    <3>2. CmdOK(c, cmd'[c]) /\ Others(c)
      BY <3>1, Holds, GoIs, StepsAre DEF CmdOK, Ended
    <3> QED
      BY <3>2, CmdsKeep
  <2>2. CASE Rename(c) /\ c \notin Requests
    <3>1. End(c, "done")
      BY <1>9, <2>2 DEF Rename
    <3> QED
      BY <3>1, EndIs, EndedIsOK, CmdsKeep, StepsAre DEF Ended
  <2> QED
    BY <1>9, <2>1, <2>2
<1>10. CASE StartLogout(c)
  <2>1. PICK token \in Tokens \cup {Nil}, at \in {"revoke", "remove"} :
           /\ at = "revoke" => Loaded # Nil /\ Loaded.kind = "cli"
           /\ Others(c) /\ cmd'[c].at = at /\ cmd'[c].code = Nil /\ cmd'[c].conf = Loaded
    BY <1>10, StartLogoutIs
  <2>2. Shaped(Loaded)
    BY LoadedIs DEF StoredTyped, Shaped
  <2>3. CmdOK(c, cmd'[c])
    BY <1>10, <2>1, <2>2, LoginAssumption DEF StartLogout, CmdOK
  <2> QED
    BY <2>1, <2>3, CmdsKeep
<1>11. CASE Revoke(c) \/ Forget(c)
  <2>1. PICK step \in {"forget", "remove"} : Go(c, step) /\ (step = "forget" => At(c, "revoke")) /\ cmd[c].at \in {"revoke", "forget"}
    BY <1>11 DEF Revoke, Forget, At
  <2>2. CmdOK(c, cmd'[c]) /\ Others(c)
    BY <2>1, Holds, GoIs, StepsAre, LoginAssumption DEF At, CmdOK
  <2> QED
    BY <2>2, CmdsKeep
<1>12. CASE Remove(c)
  BY <1>12, RemoveIs, EndedIsOK, CmdsKeep DEF Ended
<1>13. CASE StartRequest(c)
  <2>1. PICK b \in Bases, at \in {"failed", "refresh", "send"} :
           /\ at # "failed" => Resolve(config) # Nil /\ config \in Configs
           /\ Others(c) /\ cmd'[c].at = at /\ cmd'[c].base = b /\ cmd'[c].code = Nil /\ cmd'[c].conf = config
           /\ cmd'[c].token = Resolve(config)
    BY <1>13, StartRequestIs
  <2>2. CmdOK(c, cmd'[c])
    BY <1>13, <2>1 DEF StartRequest, StoredTyped, CmdOK, Ended
  <2> QED
    BY <2>1, <2>2, CmdsKeep
<1>14. CASE Refresh(c)
  <2>1. PICK step \in {"reload", "send"} : Go(c, step)
    BY <1>14 DEF Refresh
  <2>2. CmdOK(c, cmd'[c]) /\ Others(c)
    BY <1>14, <2>1, Holds, GoIs, StepsAre DEF Refresh, At, CmdOK, Ended
  <2> QED
    BY <2>2, CmdsKeep
<1>15. CASE Reload(c) /\ Loaded = Nil
  <2>1. CmdOK(c, cmd'[c]) /\ Others(c)
    BY <1>15, Holds, GoIs, StepsAre DEF Reload, At, CmdOK, Ended
  <2> QED
    BY <2>1, CmdsKeep
<1>16. CASE Reload(c) /\ Loaded # Nil
  <2>1. PICK conf \in Configs :
           /\ conf.kind = "firebase" /\ conf.base = config.base /\ conf.token = cmd[c].token
           /\ Others(c) /\ cmd'[c].at = "write" /\ cmd'[c].base = cmd[c].base /\ cmd'[c].code = cmd[c].code
           /\ cmd'[c].conf = conf /\ cmd'[c].token = cmd[c].token
    BY <1>16, ReloadIs
  <2>2. c \in Requests /\ c \notin Logins /\ cmd[c].token # Nil /\ cmd[c].base \in Bases
    BY <1>16, Holds, LoginAssumption DEF Reload, At, CmdOK, Ended
  <2>3. CmdOK(c, cmd'[c])
    BY <2>1, <2>2, Holds, LoginAssumption DEF CmdOK, Shaped
  <2> QED
    BY <2>1, <2>3, CmdsKeep
<1> QED
  BY <1>1, <1>2, <1>3, <1>4, <1>5, <1>6, <1>7, <1>8, <1>9, <1>10, <1>11, <1>12, <1>13, <1>14, <1>15, <1>16
  DEF Step

LEMMA StoredTypedKeeps ==
    ASSUME Typed, NEW c \in Cmds,
           \/ Step(c) \/ Kill(c) \/ StartLogout(c) \/ StartRequest(c)
           \/ c \in Logins /\ (StartLogin(c) \/ PasteToken(c) \/ Handle(c))
    PROVE  StoredTyped'
<1> USE DEF Typed
<1>1. CASE \/ Refresh(c) \/ Reload(c) \/ Send(c) \/ Kill(c) \/ StartLogout(c) \/ StartRequest(c)
           \/ c \in Logins /\ StartLogin(c)
  <2>1. UNCHANGED <<config, keychain, live, inbox, last>> /\ tmp' \in {tmp, Torn}
    BY <1>1 DEF Refresh, Reload, Send, Kill, StartLogout, StartRequest, StartLogin, stored
  <2>2. tmp' \in Files /\ Shaped(tmp')
    BY <2>1, LoadedIs DEF StoredTyped, Files, Shaped
  <2> QED
    BY <2>1, <2>2 DEF StoredTyped
<1>2. CASE c \in Logins /\ PasteToken(c)
  <2>1. UNCHANGED <<config, tmp, keychain, inbox, last>>
    BY <1>2 DEF PasteToken, stored
  <2>2. live' \subseteq Tokens
    <3>1. PICK b \in Bases : live' = live \cup {OwnToken(c, b)} /\ OwnToken(c, b) \in Tokens
      BY <1>2, PasteTokenIs
    <3> QED
      BY <3>1 DEF StoredTyped
  <2> QED
    BY <2>1, <2>2 DEF StoredTyped
<1>3. CASE (c \in Logins /\ Handle(c)) \/ Receive(c) \/ GiveUp(c)
  <2>1. c \in Logins
    BY <1>3, Holds DEF Receive, GiveUp, At, CmdOK
  <2>2. UNCHANGED <<config, tmp, keychain, live, last>>
    BY <1>3 DEF Handle, Receive, GiveUp, stored
  <2> DEFINE Boxes == [result : Logins \cup {Nil}, err : BOOLEAN]
  <2>3. \E r \in Boxes : r.result \in {inbox[c].result, c, Nil} /\ inbox' = [inbox EXCEPT ![c] = r]
    <3>1. inbox[c] \in Boxes
      BY <2>1 DEF StoredTyped
    <3>2. CASE Receive(c) \/ GiveUp(c)
      <4>1. inbox' = [inbox EXCEPT ![c] = Empty]
        BY <3>2 DEF Receive, GiveUp
      <4>2. Empty \in Boxes /\ Empty.result = Nil
        BY DEF Empty
      <4> QED
        BY <4>1, <4>2
    <3>3. CASE inbox' = [inbox EXCEPT ![c].result = IF @ = Nil THEN c ELSE @]
      <4> DEFINE x == IF inbox[c].result = Nil THEN c ELSE inbox[c].result
                 r == [inbox[c] EXCEPT !.result = x]
      <4>1. inbox' = [inbox EXCEPT ![c] = r]
        BY <3>3
      <4>2. x \in {inbox[c].result, c} /\ x \in Logins \cup {Nil}
        BY <2>1, <3>1
      <4> HIDE DEF x
      <4>3. r \in Boxes /\ r.result = x
        BY <3>1, <4>2
      <4> QED
        BY <4>1, <4>2, <4>3
    <3>4. CASE inbox' = [inbox EXCEPT ![c].err = TRUE]
      <4> DEFINE r == [inbox[c] EXCEPT !.err = TRUE]
      <4>1. inbox' = [inbox EXCEPT ![c] = r]
        BY <3>4
      <4>2. r \in Boxes /\ r.result = inbox[c].result
        BY <3>1
      <4> QED
        BY <4>1, <4>2
    <3> QED
      BY <1>3, <3>2, <3>3, <3>4 DEF Handle
  <2>4. inbox' \in [Logins -> [result : Logins \cup {Nil}, err : BOOLEAN]]
        /\ \A d \in Logins : inbox'[d].result \in {Nil, d}
    <3>1. PICK r \in Boxes : r.result \in {inbox[c].result, c, Nil} /\ inbox' = [inbox EXCEPT ![c] = r]
      BY <2>3
    <3>2. r.result \in {Nil, c}
      BY <2>1, <3>1 DEF StoredTyped
    <3> QED
      BY <2>1, <3>1, <3>2 DEF StoredTyped
  <2> QED
    BY <2>2, <2>4 DEF StoredTyped
<1>4. CASE Exchange(c)
  <2>1. c \in Logins
    BY <1>4, Holds DEF Exchange, At, CmdOK
  <2>3. live' \subseteq Tokens
    BY <1>4, <2>1, ExchangeIs DEF StoredTyped
  <2>2. live' \subseteq Tokens /\ UNCHANGED <<config, tmp, keychain, inbox, last>>
    BY <1>4, <2>3 DEF Exchange, stored
  <2> QED
    BY <2>2 DEF StoredTyped
<1>5. CASE Keep(c)
  <2>1. UNCHANGED <<config, tmp, live, inbox, last>>
    BY <1>5 DEF Keep
  <2>2. cmd[c].base \in Bases /\ cmd[c].token \in Tokens /\ cmd[c].token.base = cmd[c].base
    <3>1. cmd[c].base \in Bases /\ cmd[c].token = OwnToken(c, cmd[c].base) /\ c \in Logins
      BY <1>5, Holds DEF Keep, At, CmdOK
    <3> QED
      BY <3>1 DEF OwnToken, Tokens
  <2>3. keychain' = [keychain EXCEPT ![cmd[c].base] = cmd[c].token] \/ keychain' = keychain
    BY <1>5 DEF Keep
  <2>4. keychain' \in [Bases -> Tokens \cup {Nil}] /\ \A b \in Bases : keychain'[b] # Nil => keychain'[b].base = b
    BY <2>2, <2>3 DEF StoredTyped
  <2> QED
    BY <2>1, <2>4 DEF StoredTyped
<1>6. CASE Write(c) \/ Rename(c) \/ SaveFails(c)
  <2>1. UNCHANGED <<keychain, live, inbox>> /\ config' \in {config, tmp} /\ tmp' \in {tmp, Nil, Torn, cmd[c].conf}
    BY <1>6 DEF Write, Rename, SaveFails
  <2>2. last' \in [token : Tokens \cup {Nil}, slips : SUBSET Cmds]
    <3>1. CASE SaveFails(c)
      <4>1. Slips(c) \in SUBSET Cmds
        BY DEF Slips, StoredTyped
      <4> QED
        BY <3>1, <4>1, SaveFailsIs DEF StoredTyped
    <3>2. CASE ~SaveFails(c) /\ last' # last
      <4>1. last' = [token |-> OwnToken(c, cmd[c].base), slips |-> {}] /\ c \notin Requests /\ At(c, "rename")
        BY <1>6, <3>2 DEF Write, Rename, OwnToken
      <4>2. c \in Logins /\ cmd[c].base \in Bases
        BY <4>1, Holds DEF At, CmdOK
      <4>3. OwnToken(c, cmd[c].base) \in Tokens
        BY <4>2 DEF OwnToken, Tokens
      <4> QED
        BY <4>1, <4>3
    <3> QED
      BY <3>1, <3>2 DEF StoredTyped
  <2>3. Shaped(Nil) /\ Shaped(Torn) /\ Shaped(cmd[c].conf) /\ cmd[c].conf \in Files
    BY LoadedIs, Holds DEF Shaped, CmdOK, Files
  <2> QED
    BY <2>1, <2>2, <2>3 DEF StoredTyped, Files
<1>7. CASE Revoke(c)
  <2>1. live' \subseteq live /\ UNCHANGED <<config, tmp, keychain, inbox, last>>
    BY <1>7 DEF Revoke, stored
  <2> QED
    BY <2>1 DEF StoredTyped
<1>8. CASE Forget(c)
  <2>1. UNCHANGED <<config, tmp, live, inbox, last>>
    BY <1>8 DEF Forget
  <2>2. cmd[c].conf.base \in Bases
    BY <1>8, Holds DEF Forget, At, CmdOK, Configs
  <2>3. keychain' = keychain \/ keychain' = [keychain EXCEPT ![cmd[c].conf.base] = Nil]
    BY <1>8 DEF Forget
  <2>4. keychain' \in [Bases -> Tokens \cup {Nil}] /\ \A b \in Bases : keychain'[b] # Nil => keychain'[b].base = b
    BY <2>2, <2>3 DEF StoredTyped
  <2> QED
    BY <2>1, <2>4 DEF StoredTyped
<1>9. CASE Remove(c)
  <2>1. UNCHANGED <<tmp, keychain, live, inbox>> /\ config' \in {config, Nil}
    BY <1>9 DEF Remove
  <2>2. last' \in [token : Tokens \cup {Nil}, slips : SUBSET Cmds]
    <3>1. Slips(c) \in SUBSET Cmds
      BY DEF Slips, StoredTyped
    <3>2. last' = [token |-> Nil, slips |-> {}] \/ last' = [last EXCEPT !.slips = Slips(c)]
      BY <1>9 DEF Remove
    <3> QED
      BY <3>1, <3>2 DEF StoredTyped
  <2>3. Shaped(Nil) /\ Nil \in Files
    BY LoadedIs DEF Shaped, Files
  <2> QED
    BY <2>1, <2>2, <2>3 DEF StoredTyped
<1> QED
  BY <1>1, <1>2, <1>3, <1>4, <1>5, <1>6, <1>7, <1>8, <1>9 DEF Step

LEMMA TypedKeeps ==
    ASSUME Typed, NEW c \in Cmds,
           \/ Step(c) \/ Kill(c) \/ StartLogout(c) \/ StartRequest(c)
           \/ c \in Logins /\ (StartLogin(c) \/ PasteToken(c) \/ Handle(c))
    PROVE  Typed'
BY CmdsTypedKeeps, StoredTypedKeeps DEF Typed

-----------------------------------------------------------------------------
(* What a step of a command c takes to begin, and does to the marks.       *)
Starts(c) == StartLogout(c) \/ StartRequest(c) \/ (c \in Logins /\ (StartLogin(c) \/ PasteToken(c)))
Moves(c) == Step(c) \/ Kill(c) \/ (c \in Logins /\ Handle(c))

LEMMA StartsAre ==
    ASSUME NEW c \in Cmds, Starts(c)
    PROVE  ~Active(c) /\ Started(c) \subseteq marks' /\ marks \subseteq marks'
<1>1. At(c, "idle") /\ Started(c) \subseteq marks'
  BY DEF Starts, StartLogout, StartRequest, StartLogin, PasteToken
<1>2. ~Active(c)
  BY <1>1 DEF At, Active, Ended
<1>3. marks \subseteq Started(c)
  BY DEF Started
<1> QED
  BY <1>1, <1>2, <1>3

LEMMA MovesAre ==
    ASSUME NEW c \in Cmds, Moves(c)
    PROVE  Active(c) /\ marks \subseteq marks'
<1>1. CASE Kill(c)
  BY <1>1 DEF Kill
<1>2. CASE Revoke(c)
  BY <1>2 DEF Revoke, At, Active, Ended
<1>3. CASE Step(c) /\ ~Revoke(c)
  <2>1. cmd[c].at \in {"waiting", "exchange", "keep", "write", "rename", "forget", "remove",
                       "refresh", "reload", "send"} /\ marks' = marks
    BY <1>3 DEF Step, At, Receive, GiveUp, Exchange, Keep, Write, Rename, SaveFails, Forget, Remove, Refresh, Reload, Send
  <2> QED
    BY <2>1 DEF Active, Ended
<1>4. CASE Handle(c)
  BY <1>4 DEF Handle, At, Active, Ended
<1> QED
  BY <1>1, <1>2, <1>3, <1>4 DEF Moves

LEMMA OthersStay ==
    ASSUME Typed, NEW c \in Cmds, Starts(c) \/ Moves(c)
    PROVE  Others(c)
<1> USE DEF Typed
<1>1. CASE cmd' = cmd
  BY <1>1 DEF Others, CmdsTyped
<1>2. ASSUME NEW r, Set(c, r) PROVE Others(c)
  <2>1. cmd' \in [Cmds -> Procs]
    BY TypedKeeps DEF Starts, Moves, CmdsTyped
  <2> QED
    BY <1>2, <2>1 DEF Set, Others, CmdsTyped
<1>3. ASSUME NEW step, Go(c, step) PROVE Others(c)
  BY <1>2, <1>3 DEF Go, Set
<1>4. ASSUME NEW how, End(c, how) PROVE Others(c)
  BY <1>2, <1>4 DEF End
<1>5. CASE Starts(c)
  BY <1>2, <1>5 DEF Starts, StartLogout, StartRequest, StartLogin, PasteToken
<1>6. CASE Receive(c) \/ Exchange(c) \/ Keep(c) \/ Remove(c) \/ Reload(c)
  BY <1>2, <1>3, <1>4, <1>6 DEF Receive, Exchange, Keep, Remove, Reload
<1>7. CASE GiveUp(c) \/ Send(c) \/ Kill(c)
  BY <1>4, <1>7 DEF GiveUp, Send, Kill
<1>8. CASE Write(c) \/ Revoke(c) \/ Forget(c) \/ Refresh(c) \/ Rename(c) \/ SaveFails(c)
  BY <1>3, <1>4, <1>8 DEF Write, Revoke, Forget, Refresh, Rename, SaveFails
<1>9. CASE Handle(c)
  BY <1>1, <1>9 DEF Handle
<1> QED
  BY <1>5, <1>6, <1>7, <1>8, <1>9 DEF Moves, Step

-----------------------------------------------------------------------------
(* Home.  A command that moves, or starts unmarked, is not beside a request*)
(* that is refreshing its token.                                           *)
LEMMA NoneRewrites ==
    ASSUME Typed, Home, NEW c \in Cmds, Starts(c) \/ Moves(c), "refresh" \notin marks',
           NEW d \in Requests, d # c
    PROVE  "refresh" \notin marks /\ cmd[d].at \notin Rewriting
<1>1. "refresh" \notin marks
  BY StartsAre, MovesAre
<1>2. CASE Moves(c)
  BY <1>1, <1>2, MovesAre DEF Home, RequestHome
<1>3. CASE Starts(c)
  <2>1. "refresh" \notin Started(c)
    BY <1>3, StartsAre
  <2> QED
    BY <1>1, <2>1 DEF Started, Rewriting
<1> QED
  BY <1>1, <1>2, <1>3

LEMMA HomeStep ==
    ASSUME Typed, Home, NEW c \in Cmds, Starts(c) \/ Moves(c),
           "refresh" \notin marks' => /\ HomeConf(config') /\ HomeConf(tmp') /\ TokenGoesHome'
                                      /\ c \in Requests => RequestHome(c)'
                                      /\ c \in Logouts => LogoutHome(c)'
    PROVE  Home'
<1>4. ASSUME "refresh" \notin marks', NEW d \in Logouts, d # c PROVE LogoutHome(d)'
  <2>1. cmd'[d] = cmd[d]
    BY <1>4, OthersStay, CmdsAre DEF Others
  <2>2. "refresh" \notin marks
    BY <1>4, StartsAre, MovesAre
  <2> QED
    BY <1>4, <2>1, <2>2 DEF Home, LogoutHome, At
<1> SUFFICES ASSUME "refresh" \notin marks', NEW d \in Requests, d # c PROVE RequestHome(d)'
  BY <1>4 DEF Home
<1>1. cmd'[d] = cmd[d]
  BY OthersStay, CmdsAre DEF Others
<1>2. "refresh" \notin marks /\ cmd[d].at \notin Rewriting
  BY NoneRewrites
<1>3. Active(d) => cmd[d].token.base = cmd[d].base
  BY <1>2 DEF Home, RequestHome
<1> QED
  BY <1>1, <1>2, <1>3 DEF RequestHome, Rewriting, Active

(* Of a request that moves on: it still is the only one to run. *)
LEMMA StillAlone ==
    ASSUME Typed, Home, NEW c \in Requests, Moves(c), "refresh" \notin marks', cmd[c].at \in Rewriting
    PROVE  \A d \in Cmds : Active(d)' => d = c
<1>1. "refresh" \notin marks /\ c \in Cmds
  BY MovesAre, CmdsAre
<1>2. \A d \in Cmds : Active(d) => d = c
  BY <1>1 DEF Home, RequestHome
<1> QED
  BY <1>1, <1>2, OthersStay DEF Others, Active

LEMMA HomeKeeps ==
    ASSUME Typed, Home, NEW c \in Cmds, Starts(c) \/ Moves(c)
    PROVE  Home'
<1> USE DEF Typed
<1>1. SUFFICES ASSUME "refresh" \notin marks'
               PROVE  /\ HomeConf(config') /\ HomeConf(tmp') /\ TokenGoesHome'
                      /\ c \in Requests => RequestHome(c)'
                      /\ c \in Logouts => LogoutHome(c)'
  BY HomeStep
<1>2. /\ "refresh" \notin marks /\ HomeConf(config) /\ HomeConf(tmp) /\ TokenGoesHome
      /\ c \in Requests => RequestHome(c)
      /\ c \in Logouts => LogoutHome(c)
  BY <1>1, StartsAre, MovesAre DEF Home
<1>3. CmdOK(c, cmd[c]) /\ cmd[c] \in Procs /\ cmd[c].conf \in Configs \cup {Nil}
  BY Holds
<1>4. \A s \in sent : s.token.base = s.to \/ s.named
  BY <1>2 DEF TokenGoesHome, Quiet
<1>5. sent' = sent => TokenGoesHome'
  BY <1>4 DEF TokenGoesHome
<1>15. HomeConf(Nil) /\ HomeConf(Torn)
  BY LoadedIs DEF HomeConf
<1>16. cmd'[c].at # "revoke" => LogoutHome(c)'
  BY DEF LogoutHome, At
<1>17. (c \in Logouts => c \notin Requests /\ c \notin Logins) /\ (c \in Logins => c \notin Requests)
  BY LoginAssumption
<1>6. CASE c \in Logins /\ sent' = sent /\ config' = config /\ tmp' = tmp
  BY <1>2, <1>5, <1>6, <1>17
<1>7. CASE c \in Logins /\ (StartLogin(c) \/ PasteToken(c) \/ Handle(c))
  <2>3. sent' = sent /\ config' = config /\ tmp' = tmp
    BY <1>7 DEF StartLogin, PasteToken, Handle, stored
  <2> QED
    BY <1>6, <1>7, <2>3
<1>18. CASE StartLogout(c)
  <2>1. c \in Logouts /\ sent' = sent /\ config' = config /\ tmp' = tmp
    BY <1>18 DEF StartLogout, stored
  <2>2. cmd'[c].conf = Loaded
    BY <1>18, StartLogoutIs
  <2>3. HomeConf(Loaded)
    BY <1>2, LoadedIs DEF HomeConf
  <2> QED
    BY <1>2, <1>5, <1>17, <2>1, <2>2, <2>3 DEF LogoutHome
<1>19. CASE Revoke(c)
  <2>1. c \in Logouts /\ At(c, "revoke") /\ config' = config /\ tmp' = tmp /\ cmd[c].conf \in Configs
    BY <1>3, <1>19 DEF Revoke, At, CmdOK, stored
  <2>2. cmd'[c].at = "forget"
    BY <1>19, GoIs, StepsAre DEF Revoke
  <2> DEFINE token == Resolve(cmd[c].conf)
  <2>3. token # Nil => token.base = cmd[c].conf.base
    BY <1>2, <2>1, ResolveIs DEF LogoutHome
  <2>4. TokenGoesHome'
    <3>1. CASE sent' = sent
      BY <1>5, <3>1
    <3>2. ASSUME NEW b \in Bases, token # Nil,
                 sent' = sent \cup {[token |-> token, to |-> b, named |-> b # cmd[c].conf.base]}
          PROVE  TokenGoesHome'
      <4> DEFINE s1 == [token |-> token, to |-> b, named |-> b # cmd[c].conf.base]
      <4>1. s1.token = token /\ s1.to = b /\ (s1.named <=> b # cmd[c].conf.base)
        OBVIOUS
      <4>2. s1.token.base = s1.to \/ s1.named
        BY <2>3, <3>2, <4>1
      <4>3. sent' = sent \cup {s1}
        BY <3>2
      <4> HIDE DEF s1
      <4>4. \A s \in sent' : s.token.base = s.to \/ s.named
        BY <1>4, <4>2, <4>3
      <4> QED
        BY <4>4 DEF TokenGoesHome
    <3> QED
      BY <1>19, <3>1, <3>2 DEF Revoke
  <2> QED
    BY <1>2, <1>16, <1>17, <2>1, <2>2, <2>4
<1>20. CASE Forget(c)
  <2>1. c \in Logouts /\ sent' = sent /\ config' = config /\ tmp' = tmp
    BY <1>3, <1>20 DEF Forget, At, CmdOK
  <2>2. cmd'[c].at = "remove"
    BY <1>20, GoIs, StepsAre DEF Forget
  <2> QED
    BY <1>2, <1>5, <1>16, <1>17, <2>1, <2>2
<1>8. CASE Receive(c) \/ GiveUp(c) \/ Exchange(c) \/ Keep(c)
  <2>1. c \in Logins
    BY <1>3, <1>8 DEF Receive, GiveUp, Exchange, Keep, At, CmdOK
  <2>2. sent' = sent /\ config' = config /\ tmp' = tmp
    BY <1>8 DEF Receive, GiveUp, Exchange, Keep, stored
  <2> QED
    BY <1>6, <2>1, <2>2, LoginAssumption
<1>9. CASE Remove(c)
  <2>1. c \in Logouts /\ sent' = sent /\ config' \in {config, Nil} /\ tmp' = tmp
    BY <1>3, <1>9 DEF Remove, At, CmdOK
  <2>2. cmd'[c].at # "revoke"
    BY <1>9, RemoveIs
  <2> QED
    BY <1>2, <1>5, <1>15, <1>16, <1>17, <2>1, <2>2
<1>10. CASE Write(c)
  <2>1. tmp' = cmd[c].conf /\ config' = config /\ sent' = sent /\ At(c, "write") /\ Go(c, "rename")
    BY <1>10 DEF Write
  <2>2. HomeConf(cmd[c].conf) /\ c \notin Logouts
    BY <1>2, <1>3, <1>17, <2>1 DEF At, CmdOK, RequestHome
  <2>3. c \in Requests => RequestHome(c)'
    <3> SUFFICES ASSUME c \in Requests PROVE RequestHome(c)'
      OBVIOUS
    <3>1. /\ cmd'[c].at = "rename" /\ cmd'[c].base = cmd[c].base /\ cmd'[c].conf = cmd[c].conf
          /\ cmd'[c].token = cmd[c].token
      BY <2>1, GoIs, StepsAre
    <3>2. Moves(c) /\ cmd[c].at \in Rewriting /\ Active(c)
      BY <1>10, <2>1 DEF Moves, Step, At, Rewriting, Active, Ended
    <3>3. \A d \in Cmds : Active(d)' => d = c
      BY <1>1, <3>2, StillAlone
    <3> QED
      BY <1>2, <2>2, <3>1, <3>2, <3>3 DEF RequestHome
  <2> QED
    BY <1>2, <1>5, <2>1, <2>2, <2>3
<1>11. CASE Rename(c) \/ SaveFails(c)
  <2>1. /\ tmp' \in {tmp, Nil, Torn} /\ config' \in {config, tmp} /\ sent' = sent
        /\ cmd[c].at \in {"write", "rename"}
    BY <1>11 DEF Rename, SaveFails, At
  <2>2. c \in Requests => RequestHome(c)'
    <3> SUFFICES ASSUME c \in Requests PROVE RequestHome(c)'
      OBVIOUS
    <3>1. cmd'[c].at = "send" /\ cmd'[c].base = cmd[c].base /\ cmd'[c].token = cmd[c].token
      BY <1>11, GoIs, SaveFailsIs, StepsAre DEF Rename
    <3>2. Active(c)
      BY <2>1 DEF At, Active, Ended
    <3> QED
      BY <1>2, <3>1, <3>2 DEF RequestHome, Rewriting
  <2>3. c \notin Logouts
    BY <1>3, <1>17, <2>1 DEF CmdOK
  <2> QED
    BY <1>2, <1>5, <1>15, <2>1, <2>2, <2>3
<1>12. CASE Send(c) \/ Kill(c)
  <2>1. config' = config /\ tmp' \in {tmp, Torn}
    BY <1>12 DEF Send, Kill, stored
  <2>2. TokenGoesHome'
    <3>1. CASE sent' = sent
      BY <1>5, <3>1
    <3>2. CASE sent' # sent
      <4> DEFINE s1 == [token |-> cmd[c].token, to |-> cmd[c].base, named |-> FALSE]
      <4>1. At(c, "send") /\ sent' = sent \cup {s1}
        BY <1>12, <3>2 DEF Send, Kill
      <4>2. c \in Requests /\ cmd[c].token.base = cmd[c].base
        BY <1>2, <1>3, <4>1 DEF At, CmdOK, RequestHome, Active, Ended
      <4>3. s1.token = cmd[c].token /\ s1.to = cmd[c].base
        OBVIOUS
      <4> HIDE DEF s1
      <4>4. \A s \in sent' : s.token.base = s.to \/ s.named
        BY <1>4, <4>1, <4>2, <4>3
      <4> QED
        BY <4>4 DEF TokenGoesHome
    <3> QED
      BY <3>1, <3>2
  <2>4. cmd'[c].at \in {"done", "killed"}
    BY <1>12, EndIs, StepsAre DEF Send, Kill
  <2>5. RequestHome(c)'
    BY <2>4 DEF RequestHome, Rewriting, Active, Ended
  <2> QED
    BY <1>2, <1>15, <1>16, <2>1, <2>2, <2>4, <2>5
<1>13. CASE StartRequest(c)
  <2>1. sent' = sent /\ config' = config /\ tmp' = tmp /\ config \in Configs /\ c \in Requests
    BY <1>13, LoadedIs DEF StartRequest, stored
  <2>2. PICK b \in Bases, at \in {"failed", "refresh", "send"} :
           /\ at # "failed" => Resolve(config) # Nil /\ config.base = b
           /\ at = "refresh" => config.kind = "firebase"
           /\ Others(c) /\ cmd'[c].at = at /\ cmd'[c].base = b /\ cmd'[c].token = Resolve(config)
    BY <1>13, StartRequestIs
  <2>3. at # "failed" => Resolve(config).base = b
    BY <1>2, <2>1, <2>2, ResolveIs
  <2>4. at = "refresh" => \A d \in Cmds : Active(d)' => d = c
    <3> SUFFICES ASSUME at = "refresh", NEW d \in Cmds, d # c, Active(d) PROVE FALSE
      BY <2>2 DEF Others, Active
    <3>1. "refresh" \in marks'
      BY <1>13, <2>1, <2>2, LoadedIs DEF StartRequest
    <3> QED
      BY <1>1, <3>1
  <2>5. RequestHome(c)'
    BY <2>1, <2>2, <2>3, <2>4 DEF RequestHome, Rewriting, Active, Ended
  <2> QED
    BY <1>2, <1>5, <1>17, <2>1, <2>5
<1>14. CASE Refresh(c) \/ Reload(c)
  <2>1. sent' = sent /\ config' = config /\ tmp' = tmp /\ c \in Requests /\ Active(c) /\ cmd[c].at \in {"refresh", "reload"}
    BY <1>3, <1>14 DEF Refresh, Reload, stored, At, CmdOK, Active, Ended
  <2>2. cmd[c].token.base = cmd[c].base /\ config \in Configs /\ config.base = cmd[c].base
    BY <1>2, <2>1 DEF RequestHome
  <2>3. \A d \in Cmds : Active(d)' => d = c
    <3>1. Moves(c) /\ cmd[c].at \in Rewriting
      BY <1>14, <2>1 DEF Moves, Step, Rewriting
    <3> QED
      BY <1>1, <2>1, <3>1, StillAlone
  <2>4. CASE \E step \in {"reload", "send"} : Go(c, step)
    <3>1. PICK step \in {"reload", "send"} : Go(c, step)
      BY <2>4
    <3>2. cmd'[c].at = step /\ cmd'[c].base = cmd[c].base /\ cmd'[c].token = cmd[c].token
      BY <3>1, GoIs, StepsAre
    <3>3. RequestHome(c)'
      BY <2>1, <2>2, <2>3, <3>2 DEF RequestHome
    <3> QED
      BY <1>2, <1>5, <1>17, <2>1, <3>3
  <2>5. CASE Reload(c) /\ Loaded # Nil
    <3>1. PICK conf \in Configs :
             /\ conf.kind = "firebase" /\ conf.base = config.base /\ conf.token = cmd[c].token
             /\ Others(c) /\ cmd'[c].at = "write" /\ cmd'[c].base = cmd[c].base
             /\ cmd'[c].conf = conf /\ cmd'[c].token = cmd[c].token
      BY <2>2, <2>5, ReloadIs
    <3>2. RequestHome(c)'
      BY <2>1, <2>2, <2>3, <3>1 DEF RequestHome, HomeConf
    <3> QED
      BY <1>2, <1>5, <1>17, <2>1, <3>2
  <2> QED
    BY <1>14, <2>4, <2>5 DEF Refresh, Reload
<1> QED
  BY <1>7, <1>8, <1>9, <1>10, <1>11, <1>12, <1>13, <1>14, <1>18, <1>19, <1>20 DEF Starts, Moves, Step

-----------------------------------------------------------------------------
(* Unissued.  A login's token appears with the step that ends its waiting. *)
Early == {"idle", "waiting", "exchange"}
Free(x) ==
    /\ NoneOf(x, config) /\ NoneOf(x, tmp) /\ \A b \in Bases : NotOf(x, keychain[b])
    /\ \A d \in Cmds : NotOf(x, cmd[d].token) /\ NoneOf(x, cmd[d].conf)

LEMMA ResolveNotOf ==
    ASSUME StoredTyped, NEW x, Free(x), NEW conf \in Configs, NoneOf(x, conf)
    PROVE  NotOf(x, Resolve(conf))
<1>1. conf.base \in Bases
  BY DEF Configs
<1> QED
  BY <1>1 DEF Resolve, Free, NoneOf

LEMMA WasEarly ==
    ASSUME Typed, NEW c \in Cmds, Starts(c) \/ Moves(c), NEW x \in Logins, cmd'[x].at \in Early
    PROVE  cmd[x].at \in Early
<1> USE DEF Typed
<1>1. CASE x # c
  BY <1>1, OthersStay, CmdsAre DEF Others
<1>2. CASE x = c /\ (Receive(c) \/ GiveUp(c) \/ Exchange(c) \/ Handle(c) \/ StartLogin(c))
  BY <1>2 DEF Receive, GiveUp, Exchange, Handle, StartLogin, At, Early
<1>3. CASE x = c /\ (PasteToken(c) \/ StartLogout(c) \/ StartRequest(c))
  BY <1>3 DEF PasteToken, StartLogout, StartRequest, At, Early
<1>4. CASE \E step \in {"rename", "send", "forget", "remove", "reload"} : x = c /\ Go(c, step)
  <2>1. PICK step \in {"rename", "send", "forget", "remove", "reload"} : x = c /\ Go(c, step)
    BY <1>4
  <2>2. cmd'[c].at = step
    BY <2>1, GoIs, StepsAre
  <2> QED
    BY <2>1, <2>2 DEF Early
<1>5. CASE \E how \in {"failed", "done", "killed"} : x = c /\ End(c, how)
  <2>1. PICK how \in {"failed", "done", "killed"} : x = c /\ End(c, how)
    BY <1>5
  <2>2. cmd'[c].at = how
    BY <2>1, EndIs, StepsAre
  <2> QED
    BY <2>1, <2>2 DEF Early
<1>6. CASE x = c /\ (Write(c) \/ Rename(c) \/ SaveFails(c) \/ Revoke(c) \/ Forget(c) \/ Refresh(c) \/ Send(c) \/ Kill(c))
  BY <1>4, <1>5, <1>6 DEF Write, Rename, SaveFails, Revoke, Forget, Refresh, Send, Kill
<1>7. CASE x = c /\ (Keep(c) \/ Remove(c) \/ Reload(c))
  <2>1. Keep(c)
    BY <1>7, Holds, LoginAssumption DEF Remove, Reload, At, CmdOK
  <2>2. cmd'[c].at = "write"
    BY <2>1, KeepIs
  <2> QED
    BY <1>7, <2>2 DEF Early
<1> QED
  BY <1>1, <1>2, <1>3, <1>6, <1>7 DEF Starts, Moves, Step

LEMMA FreeStep ==
    ASSUME Typed, NEW c \in Cmds, Starts(c) \/ Moves(c), NEW x, Free(x),
           NoneOf(x, config'), NoneOf(x, tmp'), \A b \in Bases : NotOf(x, keychain'[b]),
           NotOf(x, cmd'[c].token), NoneOf(x, cmd'[c].conf)
    PROVE  Free(x)'
BY OthersStay DEF Free, NoneOf, NotOf, Others

LEMMA UnissuedKeeps ==
    ASSUME Typed, Unissued, NEW c \in Cmds, Starts(c) \/ Moves(c)
    PROVE  Unissued'
<1> USE DEF Typed
<1>1. SUFFICES ASSUME NEW x \in Logins, cmd'[x].at \in Early PROVE Free(x)'
  BY DEF Unissued, Early, Free
<1>2. Free(x)
  BY <1>1, WasEarly DEF Unissued, Early, Free
<1>3. /\ NoneOf(x, config) /\ NoneOf(x, tmp) /\ (\A b \in Bases : NotOf(x, keychain[b]))
      /\ NotOf(x, cmd[c].token) /\ NoneOf(x, cmd[c].conf)
  BY <1>2 DEF Free
<1>4. NotOf(x, Nil) /\ NoneOf(x, Nil) /\ NoneOf(x, Torn)
  BY LoadedIs DEF NotOf, NoneOf
<1>5. \A b : NotOf(x, OwnToken(c, b)) \/ x = c
  BY DEF NotOf, OwnToken
<1>6. CASE UNCHANGED <<cmd, stored>>
  BY <1>3, <1>6, FreeStep, <1>2 DEF stored
<1>7. ASSUME UNCHANGED stored, NotOf(x, cmd'[c].token), NoneOf(x, cmd'[c].conf) PROVE Free(x)'
  BY <1>2, <1>3, <1>7, FreeStep DEF stored
<1>8. CASE c \in Logins /\ StartLogin(c)
  <2>1. cmd'[c].token = Nil /\ cmd'[c].conf = Nil
    BY <1>8, StartLoginIs
  <2> QED
    BY <1>4, <1>7, <1>8, <2>1 DEF StartLogin
<1>9. CASE c \in Logins /\ PasteToken(c)
  <2>1. PICK b \in Bases : cmd'[c].at = "write" /\ cmd'[c].token = Nil
                           /\ cmd'[c].conf = [kind |-> "operator", base |-> b, token |-> OwnToken(c, b)]
    BY <1>9, PasteTokenIs
  <2>2. x # c
    BY <1>1, <2>1 DEF Early
  <2>3. NoneOf(x, cmd'[c].conf)
    BY <1>5, <2>1, <2>2 DEF NoneOf
  <2> QED
    BY <1>4, <1>7, <1>9, <2>1, <2>3 DEF PasteToken
<1>10. CASE c \in Logins /\ Handle(c)
  BY <1>6, <1>10 DEF Handle
<1>11. CASE Receive(c)
  <2>1. c \in Logins
    BY <1>11, Holds DEF Receive, At, CmdOK
  <2>2. cmd'[c].conf = cmd[c].conf /\ cmd'[c].token = cmd[c].token
    BY <1>11, <2>1, ReceiveIs
  <2> QED
    BY <1>3, <1>7, <1>11, <2>2 DEF Receive
<1>12. CASE GiveUp(c) \/ Send(c) \/ Kill(c)
  <2>1. PICK how \in {"failed", "done", "killed"} : End(c, how)
    BY <1>12 DEF GiveUp, Send, Kill
  <2>2. cmd'[c].conf = Nil /\ cmd'[c].token = Nil
    BY <2>1, EndIs, StepsAre
  <2>3. UNCHANGED <<config, keychain>> /\ tmp' \in {tmp, Torn}
    BY <1>12 DEF GiveUp, Send, Kill, stored
  <2> QED
    BY <1>2, <1>3, <1>4, <2>2, <2>3, FreeStep
<1>13. CASE Exchange(c)
  <2>1. c \in Logins
    BY <1>13, Holds DEF Exchange, At, CmdOK
  <2>2. \/ cmd'[c].at = "keep" /\ cmd'[c].conf = cmd[c].conf /\ cmd'[c].token = OwnToken(c, cmd[c].base)
        \/ cmd'[c].conf = Nil /\ cmd'[c].token = Nil
    BY <1>13, <2>1, ExchangeIs
  <2>3. NotOf(x, cmd'[c].token) /\ NoneOf(x, cmd'[c].conf)
    BY <1>1, <1>3, <1>4, <1>5, <2>2 DEF Early
  <2> QED
    BY <1>7, <1>13, <2>3 DEF Exchange
<1>14. CASE Keep(c)
  <2>1. PICK token \in {Nil, cmd[c].token} : \E conf \in Configs :
           /\ conf = [kind |-> "cli", base |-> cmd[c].base, token |-> token]
           /\ keychain' = IF token = Nil THEN [keychain EXCEPT ![cmd[c].base] = cmd[c].token] ELSE keychain
           /\ cmd'[c].conf = conf /\ cmd'[c].token = cmd[c].token
    BY <1>14, KeepIs
  <2>2. NoneOf(x, cmd'[c].conf) /\ NotOf(x, cmd'[c].token)
    BY <1>3, <1>4, <2>1 DEF NoneOf
  <2>3. \A b \in Bases : keychain'[b] \in {keychain[b], cmd[c].token}
    BY <2>1 DEF StoredTyped
  <2>4. \A b \in Bases : NotOf(x, keychain'[b])
    BY <1>3, <2>3
  <2> QED
    BY <1>2, <1>3, <1>14, <2>2, <2>4, FreeStep DEF Keep
<1>15. CASE Write(c) \/ Rename(c) \/ SaveFails(c)
  <2>1. UNCHANGED keychain /\ config' \in {config, tmp} /\ tmp' \in {tmp, Nil, Torn, cmd[c].conf}
    BY <1>15 DEF Write, Rename, SaveFails
  <2>2. cmd'[c].conf \in {Nil, cmd[c].conf} /\ cmd'[c].token \in {Nil, cmd[c].token}
    <3>1. CASE SaveFails(c)
      BY <3>1, SaveFailsIs
    <3>2. CASE ~SaveFails(c)
      BY <1>15, <3>2, GoIs, EndIs, StepsAre DEF Write, Rename
    <3> QED
      BY <3>1, <3>2
  <2>3. NotOf(x, cmd'[c].token)
    BY <1>3, <1>4, <2>2
  <2> QED
    BY <1>2, <1>3, <1>4, <2>1, <2>2, <2>3, FreeStep
<1>17. CASE StartLogout(c)
  <2>1. PICK token \in Tokens \cup {Nil}, at \in {"revoke", "remove"} :
              /\ at = "revoke" => Loaded # Nil /\ Loaded.kind = "cli" /\ token = Resolve(Loaded)
              /\ at = "remove" => token = Nil
              /\ cmd'[c].conf = Loaded /\ cmd'[c].token = token
    BY <1>17, StartLogoutIs
  <2>2. NoneOf(x, Loaded)
    BY <1>3, <1>4, LoadedIs
  <2>3. NotOf(x, token)
    BY <1>2, <1>4, <2>1, <2>2, ResolveNotOf, LoadedIs
  <2> QED
    BY <1>3, <1>7, <1>17, <2>1, <2>2, <2>3 DEF StartLogout
<1>18. CASE Revoke(c)
  <2>1. cmd'[c].conf = cmd[c].conf /\ cmd'[c].token = cmd[c].token
    BY <1>18, GoIs, StepsAre DEF Revoke
  <2> QED
    BY <1>3, <1>7, <1>18, <2>1 DEF Revoke
<1>19. CASE Forget(c)
  <2>1. cmd'[c].conf = cmd[c].conf /\ cmd'[c].token = cmd[c].token
    BY <1>19, GoIs, StepsAre DEF Forget
  <2>2. \A b \in Bases : keychain'[b] \in {keychain[b], Nil}
    BY <1>19 DEF Forget, StoredTyped
  <2>3. \A b \in Bases : NotOf(x, keychain'[b])
    BY <1>3, <1>4, <2>2
  <2> QED
    BY <1>2, <1>3, <1>19, <2>1, <2>3, FreeStep DEF Forget
<1>20. CASE Remove(c)
  <2>1. cmd'[c].conf = Nil /\ cmd'[c].token \in {cmd[c].token, Nil}
    BY <1>20, RemoveIs
  <2>2. config' \in {config, Nil} /\ tmp' = tmp /\ keychain' = keychain
    BY <1>20 DEF Remove
  <2> QED
    BY <1>2, <1>3, <1>4, <2>1, <2>2, FreeStep
<1>21. CASE StartRequest(c)
  <2>1. cmd'[c].conf = config /\ cmd'[c].token = Resolve(config) /\ config \in Configs
    BY <1>21, StartRequestIs
  <2>2. NotOf(x, Resolve(config))
    BY <1>2, <1>3, <2>1, ResolveNotOf
  <2> QED
    BY <1>3, <1>7, <1>21, <2>1, <2>2 DEF StartRequest
<1>22. CASE Refresh(c) \/ (Reload(c) /\ Loaded = Nil)
  <2>1. PICK step \in {"reload", "send"} : Go(c, step)
    BY <1>22 DEF Refresh, Reload
  <2>2. cmd'[c].conf = cmd[c].conf /\ cmd'[c].token = cmd[c].token
    BY <2>1, GoIs, StepsAre
  <2> QED
    BY <1>3, <1>7, <1>22, <2>2 DEF Refresh, Reload
<1>23. CASE Reload(c) /\ Loaded # Nil
  <2>1. PICK conf \in Configs : conf.token = cmd[c].token /\ cmd'[c].conf = conf /\ cmd'[c].token = cmd[c].token
    BY <1>23, ReloadIs
  <2>2. NoneOf(x, conf)
    BY <1>3, <2>1 DEF NoneOf
  <2> QED
    BY <1>3, <1>7, <1>23, <2>1, <2>2 DEF Reload
<1> QED
  BY <1>8, <1>9, <1>10, <1>11, <1>12, <1>13, <1>14, <1>15, <1>17, <1>18, <1>19, <1>20, <1>21, <1>22, <1>23
  DEF Starts, Moves, Step

-----------------------------------------------------------------------------
(* Alone.  While it is quiet, the command that steps is the one that runs. *)
AloneHolds ==
    /\ \A c, d \in Cmds : Active(c) /\ Active(d) => c = d
    /\ (\A c \in Cmds : ~Changing(c)) => Consistent
    /\ \A c \in Cmds : Phase(c)

LEMMA Solo ==
    ASSUME Typed, Alone, NEW c \in Cmds, Starts(c) \/ Moves(c), Quiet({"overlap", "killed"})'
    PROVE  /\ Quiet({"overlap", "killed"}) /\ AloneHolds
           /\ \A d \in Cmds \ {c} : ~Active(d)
           /\ ~Changing(c) => Consistent
           /\ Phase(c)
<1>1. Quiet({"overlap", "killed"})
  BY StartsAre, MovesAre DEF Quiet
<1>2. AloneHolds
  BY <1>1 DEF Alone, AloneHolds
<1>3. \A d \in Cmds \ {c} : ~Active(d)
  <2>1. CASE Moves(c)
    BY <1>2, <2>1, MovesAre DEF AloneHolds
  <2>2. CASE Starts(c)
    <3>1. "overlap" \notin Started(c)
      BY <2>2, StartsAre DEF Quiet
    <3> QED
      BY <3>1 DEF Started
  <2> QED
    BY <2>1, <2>2
<1>4. \A d \in Cmds \ {c} : ~Changing(d)
  BY <1>3 DEF At, Changing, Active, Ended
<1> QED
  BY <1>1, <1>2, <1>3, <1>4 DEF AloneHolds

LEMMA AloneStep ==
    ASSUME Typed, Alone, NEW c \in Cmds, Starts(c) \/ Moves(c), Quiet({"overlap", "killed"})',
           ~Changing(c)' => Consistent', Phase(c)'
    PROVE  AloneHolds'
<1>1. \A d \in Cmds \ {c} : ~Active(d) /\ cmd'[d] = cmd[d]
  BY Solo, OthersStay DEF Others
<1>2. \A d \in Cmds \ {c} : cmd'[d].at \in Ended
  BY <1>1 DEF Active
<1>3. \A d \in Cmds \ {c} : Phase(d)' /\ ~Changing(d)'
  BY <1>2 DEF Phase, Changing, At, Ended
<1> QED
  BY <1>2, <1>3 DEF AloneHolds, Active

(* A command that runs and touches nothing that is stored. *)
LEMMA AloneIdly ==
    ASSUME Typed, Alone, NEW c \in Cmds, Starts(c) \/ Moves(c), Quiet({"overlap", "killed"})',
           UNCHANGED <<config, keychain, last>>, ~Changing(c), Phase(c)'
    PROVE  AloneHolds'
<1>1. Consistent
  BY Solo
<1>2. Consistent'
  BY <1>1 DEF Consistent, Session, Resolve
<1> QED
  BY <1>2, AloneStep

LEMMA PhaseIdly ==
    ASSUME NEW c \in Cmds,
           cmd'[c].at \notin {"write", "rename", "remove", "refresh", "reload", "revoke", "forget"}
    PROVE  Phase(c)'
BY DEF Phase, Changing, At

(* A command that begins to change what is stored, or goes on: the session *)
(* is what it was, for more slips.                                         *)
LEMMA SessionStays ==
    ASSUME NEW c \in Cmds, UNCHANGED <<config, keychain, last>>
    PROVE  /\ Session(last.slips) => Session(Slips(c))'
           /\ Slips(c)' = Slips(c) /\ Session(Slips(c)) => Session(Slips(c))'
<1>1. last'.slips \subseteq Slips(c)'
  BY DEF Slips
<1>2. Session(last.slips) => Session(Slips(c))'
  BY <1>1 DEF Session, Resolve
<1>3. Slips(c)' = Slips(c) /\ Session(Slips(c)) => Session(Slips(c))'
  BY DEF Session, Resolve
<1> QED
  BY <1>2, <1>3

(* A slip leaves the session that it was changing.                         *)
LEMMA SlipLeaves ==
    ASSUME StoredTyped, NEW c \in Cmds, Session(Slips(c)), UNCHANGED <<config, keychain>>,
           last' = [last EXCEPT !.slips = Slips(c)]
    PROVE  Consistent'
<1>1. last'.token = last.token /\ last'.slips = Slips(c)
  BY DEF StoredTyped
<1> QED
  BY <1>1 DEF Consistent, Session, Resolve

LEMMA AloneKeeps ==
    ASSUME Typed, Alone, NEW c \in Cmds, Starts(c) \/ Moves(c)
    PROVE  Alone'
<1> USE DEF Typed
<1>1. SUFFICES ASSUME Quiet({"overlap", "killed"})' PROVE AloneHolds'
  BY DEF Alone, AloneHolds
<1>2. /\ (\A d \in Cmds \ {c} : ~Active(d)) /\ Phase(c)
      /\ ~Changing(c) => Consistent
  BY <1>1, Solo
<1>3. CmdOK(c, cmd[c]) /\ cmd[c].conf \in Configs \cup {Nil} /\ cmd[c].token \in Tokens \cup {Nil}
  BY Holds
<1>4. c \in Logins => c \notin Requests /\ c \notin Logouts
  BY LoginAssumption
<1>5. CASE StartLogout(c) \/ StartRequest(c) \/ (c \in Logins /\ (StartLogin(c) \/ PasteToken(c)))
  <2>1. ~Changing(c) /\ UNCHANGED <<config, keychain, last>> /\ Consistent
    BY <1>2, <1>5 DEF StartLogout, StartRequest, StartLogin, PasteToken, At, Changing, stored
  <2>6. Consistent' /\ Session(Slips(c))'
    BY <2>1, SessionStays DEF Consistent, Session, Resolve
  <2>2. CASE StartLogout(c)
    <3>1. PICK token \in Tokens \cup {Nil}, at \in {"revoke", "remove"} :
              /\ at = "revoke" => Loaded # Nil /\ Loaded.kind = "cli" /\ token = Resolve(Loaded)
              /\ cmd'[c].at = at /\ cmd'[c].conf = Loaded /\ cmd'[c].token = token
      BY <2>2, StartLogoutIs
    <3>2. at = "revoke" => cmd'[c].conf = config' /\ cmd'[c].token = Resolve(config)'
      BY <2>1, <3>1, LoadedIs DEF Resolve
    <3>3. c \notin Logins
      BY <1>4, <2>2 DEF StartLogout
    <3>4. Phase(c)'
      BY <2>6, <3>1, <3>2, <3>3 DEF Phase, At
    <3> QED
      BY <1>1, <2>1, <3>4, AloneIdly
  <2>3. CASE StartRequest(c)
    <3>1. PICK b \in Bases, at \in {"failed", "refresh", "send"} :
              /\ config \in Configs /\ at = "refresh" => config.kind = "firebase"
              /\ cmd'[c].at = at /\ cmd'[c].token = Resolve(config)
      BY <2>3, StartRequestIs
    <3>2. at = "refresh" => config \in Configs /\ config.kind = "firebase" /\ cmd'[c].token = config.token
      BY <2>3, <3>1, StartRequestIs DEF Resolve
    <3>3. Phase(c)'
      BY <2>1, <3>1, <3>2 DEF Phase, Changing, At
    <3> QED
      BY <1>1, <2>1, <3>3, AloneIdly
  <2>4. CASE c \in Logins /\ StartLogin(c)
    <3>1. cmd'[c].at = "waiting"
      BY <2>4, StartLoginIs
    <3> QED
      BY <1>1, <1>5, <2>1, <3>1, PhaseIdly, AloneIdly
  <2>5. CASE c \in Logins /\ PasteToken(c)
    <3>1. PICK b \in Bases :
             /\ cmd'[c].at = "write" /\ cmd'[c].base = b
             /\ cmd'[c].conf = [kind |-> "operator", base |-> b, token |-> OwnToken(c, b)]
      BY <2>5, PasteTokenIs
    <3>2. Resolve(cmd[c].conf)' = OwnToken(c, cmd'[c].base)
      BY <3>1 DEF Resolve
    <3>4. Phase(c)'
      BY <2>5, <2>6, <3>1, <3>2, <1>4 DEF Phase, At
    <3> QED
      BY <1>1, <2>1, <3>4, AloneIdly
  <2> QED
    BY <1>5, <2>2, <2>3, <2>4, <2>5
<1>6. CASE Receive(c) \/ GiveUp(c) \/ Exchange(c) \/ (c \in Logins /\ Handle(c))
  <2>1. c \in Logins /\ cmd[c].at \in {"waiting", "exchange"}
    BY <1>3, <1>6 DEF Receive, GiveUp, Exchange, Handle, At, CmdOK
  <2>2. cmd'[c].at \in {"waiting", "exchange", "keep", "failed"}
    <3>1. CASE Receive(c)
      BY <2>1, <3>1, ReceiveIs
    <3>2. CASE GiveUp(c)
      BY <3>2, EndIs, StepsAre DEF GiveUp
    <3>3. CASE Exchange(c)
      BY <2>1, <3>3, ExchangeIs
    <3>4. CASE Handle(c)
      BY <2>1, <3>4 DEF Handle
    <3> QED
      BY <1>6, <3>1, <3>2, <3>3, <3>4
  <2>3. UNCHANGED <<config, keychain, last>>
    BY <1>6 DEF Receive, GiveUp, Exchange, Handle, stored
  <2>4. ~Changing(c)
    BY <1>4, <2>1 DEF Changing, At
  <2> QED
    BY <1>1, <2>2, <2>3, <2>4, PhaseIdly, AloneIdly
<1>7. CASE Keep(c)
  <2>1. PICK token \in {Nil, cmd[c].token} : \E conf \in Configs :
              /\ conf = [kind |-> "cli", base |-> cmd[c].base, token |-> token]
              /\ keychain' = IF token = Nil THEN [keychain EXCEPT ![cmd[c].base] = cmd[c].token] ELSE keychain
              /\ cmd'[c].at = "write" /\ cmd'[c].base = cmd[c].base /\ cmd'[c].conf = conf
    BY <1>7, KeepIs
  <2>2. c \in Logins /\ cmd[c].base \in Bases /\ cmd[c].token = OwnToken(c, cmd[c].base) /\ cmd[c].at = "keep"
    BY <1>3, <1>7 DEF Keep, At, CmdOK
  <2>3. OwnToken(c, cmd[c].base) \in Tokens /\ OwnToken(c, cmd[c].base) # Nil
    BY <2>2, LoginAssumption DEF OwnToken, Tokens
  <2>4. config' = config /\ last' = last /\ Consistent
    BY <1>2, <1>7, <2>2 DEF Keep, At, Changing
  <2>5. cmd'[c].conf = [kind |-> "cli", base |-> cmd[c].base, token |-> token]
    BY <2>1
  <2>6. Resolve(cmd[c].conf)' = OwnToken(c, cmd[c].base)
    <3>1. CASE token = Nil
      <4>1. keychain'[cmd[c].base] = cmd[c].token
        BY <2>1, <2>2, <3>1 DEF StoredTyped
      <4> QED
        BY <2>2, <2>5, <3>1, <4>1 DEF Resolve
    <3>2. CASE token # Nil
      BY <2>1, <2>2, <2>5, <3>2 DEF Resolve
    <3> QED
      BY <3>1, <3>2
  <2>7. Session(Slips(c))'
    <3>1. CASE token = Nil
      <4>1. Slips(c)' = last.slips \cup {c}
        <5>1. [kind |-> "cli", base |-> cmd[c].base, token |-> token] \in Configs
          BY <2>2, <3>1 DEF Configs, Kinds
        <5>2. cmd'[c].conf # Nil /\ cmd'[c].conf.token = Nil
          BY <2>5, <3>1, <5>1, LoadedIs
        <5> QED
          BY <2>4, <5>2 DEF Slips
      <4>2. keychain' = [keychain EXCEPT ![cmd[c].base] = cmd[c].token]
        BY <2>1, <3>1
      <4>3. CASE last.token = Nil
        BY <2>4, <4>3 DEF Consistent, Session
      <4>4. CASE last.token # Nil
        <5>1. config \in Configs /\ config.base = last.token.base /\ config.base \in Bases
          BY <2>4, <4>4 DEF Consistent, Session, Configs
        <5>2. CASE config.kind = "cli" /\ config.token = Nil /\ config.base = cmd[c].base
          <6>1. Resolve(config)' = [base |-> config.base, by |-> c]
            BY <2>2, <2>4, <4>2, <5>1, <5>2 DEF Resolve, StoredTyped, OwnToken
          <6> QED
            BY <2>2, <2>4, <4>1, <4>4, <5>1, <6>1 DEF Session
        <5>3. CASE ~(config.kind = "cli" /\ config.token = Nil /\ config.base = cmd[c].base)
          <6>1. Resolve(config)' = Resolve(config)
            BY <2>2, <2>4, <4>2, <5>1, <5>3 DEF Resolve, StoredTyped
          <6> QED
            BY <2>4, <4>1, <4>4, <5>1, <6>1 DEF Consistent, Session
        <5> QED
          BY <5>2, <5>3
      <4> QED
        BY <4>3, <4>4
    <3>2. CASE token # Nil
      <4>1. UNCHANGED <<config, keychain, last>>
        BY <2>1, <2>4, <3>2
      <4> QED
        BY <2>4, <4>1, SessionStays DEF Consistent
    <3> QED
      BY <3>1, <3>2
  <2>8. Phase(c)'
    BY <1>4, <2>1, <2>2, <2>6, <2>7 DEF Phase, At
  <2>9. Changing(c)'
    BY <2>1, <2>2 DEF Changing
  <2> QED
    BY <1>1, <2>8, <2>9, AloneStep
<1>8. CASE Write(c)
  <2>0. Go(c, "rename")
    BY <1>8 DEF Write
  <2>1. /\ cmd'[c].at = "rename" /\ cmd'[c].base = cmd[c].base /\ cmd'[c].conf = cmd[c].conf
        /\ cmd'[c].token = cmd[c].token
    BY <2>0, GoIs, StepsAre
  <2>2. tmp' = cmd[c].conf /\ UNCHANGED <<config, keychain, last>> /\ cmd[c].at = "write"
    BY <1>8 DEF Write, At
  <2>3. Resolve(cmd[c].conf)' = Resolve(cmd[c].conf) /\ Resolve(config)' = Resolve(config)
    BY <2>1, <2>2 DEF Resolve
  <2>4. c \in Logins => Session(Slips(c))'
    <3>1. c \in Logins => Session(Slips(c))
      BY <1>2, <2>2 DEF Phase, Changing
    <3>2. Slips(c)' = Slips(c)
      BY <2>1, <2>2 DEF Slips
    <3> QED
      BY <2>2, <3>1, <3>2 DEF Session, Resolve
  <2>5. Changing(c)' => c \in Logins
    BY <2>1 DEF Changing, At
  <2>6. Phase(c)'
    BY <1>2, <1>4, <2>1, <2>2, <2>3, <2>4, <2>5 DEF Phase, At
  <2>7. ~Changing(c)' => Consistent'
    <3>1. ~Changing(c)' => ~Changing(c)
      BY <2>1, <2>2 DEF Changing, At
    <3> QED
      BY <1>2, <2>2, <3>1 DEF Consistent, Session, Resolve
  <2> QED
    BY <1>1, <2>6, <2>7, AloneStep
<1>9. CASE Rename(c)
  <2>1. /\ cmd[c].at = "rename" /\ tmp = cmd[c].conf /\ cmd[c].conf \in Configs /\ config' = tmp
        /\ keychain' = keychain /\ c \in Logins \cup Requests
    BY <1>2, <1>3, <1>9 DEF Rename, At, Phase, CmdOK
  <2>2. Resolve(config)' = Resolve(cmd[c].conf)
    BY <2>1 DEF Resolve
  <2>3. CASE c \in Requests
    <3>1. cmd'[c].at = "send" /\ last' = last
      BY <1>9, <2>3, GoIs, StepsAre DEF Rename
    <3>2. /\ config \in Configs /\ Resolve(cmd[c].conf) = Resolve(config) /\ cmd[c].conf.base = config.base
          /\ Consistent
      BY <1>2, <1>4, <2>1, <2>3 DEF Phase, Changing, At
    <3>3. Consistent'
      BY <2>1, <2>2, <3>1, <3>2, LoadedIs DEF Consistent, Session
    <3> QED
      BY <1>1, <3>1, <3>3, PhaseIdly, AloneStep
  <2>4. CASE c \notin Requests
    <3>1. c \in Logins /\ cmd[c].base \in Bases /\ cmd[c].conf.base = cmd[c].base
      BY <1>3, <2>1, <2>4 DEF CmdOK
    <3>2. last' = [token |-> OwnToken(c, cmd[c].base), slips |-> {}] /\ End(c, "done")
      BY <1>9, <2>4 DEF Rename, OwnToken
    <3>3. last'.token = OwnToken(c, cmd[c].base) /\ last'.token # Nil /\ last'.token.base = cmd[c].base
      <4>1. OwnToken(c, cmd[c].base) \in Tokens /\ OwnToken(c, cmd[c].base).base = cmd[c].base
        BY <3>1 DEF OwnToken, Tokens
      <4> QED
        BY <3>2, <4>1, LoginAssumption
    <3>4. Resolve(cmd[c].conf) = OwnToken(c, cmd[c].base)
      BY <1>2, <2>1, <3>1 DEF Phase
    <3>5. Consistent'
      BY <2>1, <2>2, <3>1, <3>3, <3>4 DEF Consistent, Session
    <3>6. cmd'[c].at = "done"
      BY <3>2, EndIs, StepsAre
    <3> QED
      BY <1>1, <3>5, <3>6, PhaseIdly, AloneStep
  <2> QED
    BY <2>3, <2>4
<1>15. CASE SaveFails(c)
  <2>1. cmd[c].at \in {"write", "rename"} /\ UNCHANGED <<config, keychain>> /\ c \in Logins \cup Requests
    BY <1>3, <1>15 DEF SaveFails, CmdOK
  <2>2. CASE c \in Requests
    <3>1. cmd'[c].at = "send" /\ last' = last
      BY <1>15, <2>2, SaveFailsIs
    <3>2. ~Changing(c)
      BY <1>4, <2>1, <2>2 DEF Changing, At
    <3> QED
      BY <1>1, <2>1, <3>1, <3>2, PhaseIdly, AloneIdly
  <2>3. CASE c \notin Requests
    <3>1. cmd'[c].at = "failed" /\ last' = [last EXCEPT !.slips = Slips(c)]
      BY <1>15, <2>3, SaveFailsIs
    <3>2. Session(Slips(c))
      BY <1>2, <2>1, <2>3 DEF Phase, Changing
    <3>3. Consistent'
      BY <2>1, <3>1, <3>2, SlipLeaves
    <3> QED
      BY <1>1, <3>1, <3>3, PhaseIdly, AloneStep
  <2> QED
    BY <2>2, <2>3
<1>10. CASE Revoke(c)
  <2>1. /\ cmd'[c].at = "forget" /\ cmd'[c].conf = cmd[c].conf /\ cmd'[c].token = cmd[c].token
    BY <1>10, GoIs, StepsAre DEF Revoke
  <2>2. UNCHANGED <<config, keychain, last>> /\ cmd[c].at = "revoke" /\ c \notin Logins
    BY <1>3, <1>4, <1>10 DEF Revoke, At, stored, CmdOK
  <2>3. ~Changing(c)
    BY <2>2 DEF Changing, At
  <2>4. Phase(c)'
    BY <1>2, <2>1, <2>2 DEF Phase, Changing, At, Resolve, Consistent, Session
  <2> QED
    BY <1>1, <2>2, <2>3, <2>4, AloneIdly
<1>11. CASE Forget(c)
  <2>1. cmd'[c].at = "remove" /\ cmd[c].at = "forget" /\ cmd'[c].conf = cmd[c].conf
    BY <1>11, GoIs, StepsAre DEF Forget, At
  <2>2. c \in Logouts /\ cmd[c].conf = config /\ config \in Configs /\ config.kind = "cli" /\ Consistent
    BY <1>2, <1>3, <2>1 DEF CmdOK, Phase
  <2>3. config' = config /\ last' = last
    BY <1>11 DEF Forget
  <2>4. Session(Slips(c))'
    <3>1. CASE keychain' = keychain
      BY <2>2, <2>3, <3>1, SessionStays DEF Consistent
    <3>2. CASE keychain' # keychain
      <4>1. keychain' = [keychain EXCEPT ![config.base] = Nil] /\ config.token = Nil
        BY <1>11, <2>2, <3>2 DEF Forget
      <4>2. c \in Slips(c)'
        BY <2>1, <2>2, <4>1, LoadedIs DEF Slips
      <4>3. config.base \in Bases
        BY <2>2 DEF Configs
      <4>4. Resolve(config)' = Nil
        BY <2>2, <2>3, <4>1, <4>3 DEF Resolve, StoredTyped
      <4> QED
        BY <2>2, <2>3, <4>2, <4>4, LoadedIs DEF Consistent, Session
    <3> QED
      BY <3>1, <3>2
  <2>5. Changing(c)'
    BY <2>1 DEF Changing, At
  <2>6. Phase(c)'
    BY <2>1, <2>2, <2>4, LoginAssumption DEF Phase, At
  <2> QED
    BY <1>1, <2>5, <2>6, AloneStep
<1>12. CASE Remove(c)
  <2>1. cmd[c].at = "remove" /\ UNCHANGED keychain
    BY <1>12 DEF Remove, At
  <2>2. CASE cmd'[c].at = "done"
    <3>1. config' = Nil /\ last'.token = Nil
      BY <1>12, <2>2, RemoveIs
    <3>2. Consistent'
      BY <3>1 DEF Consistent, Session
    <3> QED
      BY <1>1, <2>2, <3>2, PhaseIdly, AloneStep
  <2>3. CASE cmd'[c].at = "failed"
    <3>1. config' = config /\ last' = [last EXCEPT !.slips = Slips(c)]
      BY <1>12, <2>3, RemoveIs
    <3>2. Session(Slips(c))
      BY <1>2, <2>1 DEF Phase, Changing, At
    <3>3. Consistent'
      BY <2>1, <3>1, <3>2, SlipLeaves
    <3> QED
      BY <1>1, <2>3, <3>3, PhaseIdly, AloneStep
  <2> QED
    BY <1>12, <2>2, <2>3, RemoveIs
<1>13. CASE Refresh(c) \/ Reload(c) \/ Send(c)
  <2>1. c \in Requests /\ UNCHANGED <<config, keychain, last>> /\ cmd[c].at \in {"refresh", "reload", "send"}
    BY <1>3, <1>13 DEF Refresh, Reload, Send, At, CmdOK, stored
  <2>2. ~Changing(c)
    BY <1>4, <2>1 DEF Changing, At
  <2>3. CASE Send(c) \/ Go(c, "send")
    <3>1. cmd'[c].at \in {"done", "send"}
      BY <2>3, GoIs, EndIs, StepsAre DEF Send
    <3> QED
      BY <1>1, <2>1, <2>2, <3>1, PhaseIdly, AloneIdly
  <2>4. CASE Refresh(c) /\ Go(c, "reload")
    <3>1. cmd'[c].at = "reload" /\ cmd'[c].token = cmd[c].token /\ cmd[c].at = "refresh"
      BY <2>4, GoIs, StepsAre DEF Refresh, At
    <3>2. Phase(c)'
      BY <1>2, <2>1, <3>1 DEF Phase, Changing, At
    <3> QED
      BY <1>1, <2>1, <2>2, <3>2, AloneIdly
  <2>5. CASE Reload(c) /\ Loaded # Nil
    <3>1. PICK conf \in Configs :
              /\ config \in Configs /\ conf.kind = "firebase" /\ conf.base = config.base /\ conf.token = cmd[c].token
              /\ cmd'[c].at = "write" /\ cmd'[c].conf = conf
      BY <2>5, ReloadIs
    <3>2. config.kind = "firebase" /\ cmd[c].token = config.token
      BY <1>2, <2>5 DEF Reload, At, Phase
    <3>3. Resolve(cmd[c].conf)' = Resolve(config)'
      BY <2>1, <3>1, <3>2 DEF Resolve
    <3>4. Phase(c)'
      BY <1>4, <2>1, <3>1, <3>3 DEF Phase, Changing, At
    <3> QED
      BY <1>1, <2>1, <2>2, <3>4, AloneIdly
  <2> QED
    BY <1>13, <2>3, <2>4, <2>5 DEF Refresh, Reload
<1>14. CASE Kill(c)
  BY <1>1, <1>14 DEF Kill, Quiet
<1> QED
  BY <1>5, <1>6, <1>7, <1>8, <1>9, <1>10, <1>11, <1>12, <1>13, <1>14, <1>15 DEF Starts, Moves, Step

-----------------------------------------------------------------------------
(* Revoked.  The step that revokes finds the token that it had read; what  *)
(* is issued later is another login's.                                     *)
LEMMA RevokedKeeps ==
    ASSUME Typed, Unissued, Alone, Revoked, NEW c \in Cmds, Starts(c) \/ Moves(c)
    PROVE  Revoked'
<1> USE DEF Typed
<1> DEFINE Late == {"forget", "remove", "done"}
<1>1. SUFFICES ASSUME Quiet({"overlap", "killed", "unrevoked"})', NEW d \in Logouts, cmd'[d].at \in Late
               PROVE  cmd'[d].token \notin live'
  BY DEF Revoked
<1>2. Quiet({"overlap", "killed", "unrevoked"}) /\ Quiet({"overlap", "killed"}) /\ d \in Cmds
  BY <1>1, StartsAre, MovesAre, CmdsAre DEF Quiet
<1>3. cmd[d].at \in Late => cmd[d].token \notin live
  BY <1>2 DEF Revoked
<1>4. CmdOK(d, cmd[d]) /\ CmdOK(c, cmd[c]) /\ d \notin Logins /\ d \notin Requests
  BY <1>2, Holds, LoginAssumption
<1>5. CASE d # c
  <2>1. cmd'[d] = cmd[d]
    BY <1>2, <1>5, OthersStay DEF Others
  <2>2. cmd[d].token \notin live
    BY <1>1, <1>3, <2>1
  <2>3. CASE live' \subseteq live
    BY <2>1, <2>2, <2>3
  <2>4. CASE (c \in Logins /\ PasteToken(c)) \/ Exchange(c)
    <3>1. c \in Logins /\ cmd[c].at \in Early
      BY <1>4, <2>4 DEF PasteToken, Exchange, At, CmdOK, Early
    <3>2. NotOf(c, cmd[d].token)
      BY <1>2, <3>1 DEF Unissued, Early
    <3>3. PICK b \in Bases : live' \subseteq live \cup {OwnToken(c, b)} /\ OwnToken(c, b) \in Tokens
      BY <1>4, <2>4, <3>1, PasteTokenIs, ExchangeIs DEF Exchange, At, CmdOK
    <3>4. cmd[d].token # OwnToken(c, b)
      BY <3>2, <3>3, LoginAssumption DEF NotOf, OwnToken
    <3> QED
      BY <2>1, <2>2, <3>3, <3>4
  <2>5. live' \subseteq live \/ (c \in Logins /\ PasteToken(c)) \/ Exchange(c)
    BY DEF Starts, Moves, Step, StartLogout, StartRequest, StartLogin, Handle, Receive, GiveUp, Keep, Write,
           Rename, SaveFails, Revoke, Forget, Remove, Refresh, Reload, Send, Kill
  <2> QED
    BY <2>3, <2>4, <2>5
<1>6. CASE d = c /\ StartLogout(c)
  <2>1. PICK token \in Tokens \cup {Nil}, at \in {"revoke", "remove"} :
           (at = "remove" => token = Nil) /\ cmd'[c].at = at /\ cmd'[c].token = token
    BY <1>6, StartLogoutIs
  <2>2. cmd'[c].token = Nil /\ live' = live
    BY <1>1, <1>6, <2>1 DEF StartLogout
  <2> QED
    BY <1>6, <2>2, LoginAssumption DEF StoredTyped
<1>7. CASE d = c /\ Revoke(c)
  <2>1. cmd'[c].token = cmd[c].token
    BY <1>7, GoIs, StepsAre DEF Revoke
  <2>2. "unrevoked" \notin marks'
    BY <1>1 DEF Quiet
  <2>3. Phase(c)
    BY <1>2 DEF Alone
  <2>4. cmd[c].token = Resolve(cmd[c].conf)
    BY <1>7, <2>3 DEF Phase, Revoke, At
  <2>5. CASE cmd[c].token = Nil
    <3>1. live' \subseteq Tokens /\ Nil \notin Tokens
      BY StoredTypedKeeps, LoginAssumption DEF StoredTyped, Starts, Moves
    <3> QED
      BY <1>7, <2>1, <2>5, <3>1
  <2>6. CASE cmd[c].token # Nil
    <3>1. PICK b \in Bases : /\ live' = {t \in live : t # cmd[c].token \/ t.base # b}
                             /\ marks' = marks \cup {m \in {"unrevoked"} : cmd[c].token.base # b}
      BY <1>7, <2>2, <2>4, <2>6 DEF Revoke
    <3>2. cmd[c].token.base = b
      BY <2>2, <3>1
    <3> QED
      BY <1>7, <2>1, <3>1, <3>2
  <2> QED
    BY <2>5, <2>6
<1>8. CASE d = c /\ Forget(c)
  <2>1. cmd'[c].token = cmd[c].token /\ live' = live /\ cmd[c].at \in Late
    BY <1>8, GoIs, StepsAre DEF Forget, At
  <2> QED
    BY <1>3, <1>8, <2>1
<1>9. CASE d = c /\ Remove(c)
  <2>1. cmd'[c].token = cmd[c].token /\ live' = live /\ cmd[c].at \in Late
    BY <1>1, <1>9, RemoveIs DEF Remove, At
  <2> QED
    BY <1>3, <1>9, <2>1
<1>10. CASE d = c /\ Kill(c)
  BY <1>2, <1>10, <1>1 DEF Kill, Quiet
<1>11. CASE d = c /\ ~(StartLogout(c) \/ Revoke(c) \/ Forget(c) \/ Remove(c) \/ Kill(c))
  <2>1. \/ StartRequest(c) \/ StartLogin(c) \/ PasteToken(c) \/ Handle(c) \/ Receive(c) \/ GiveUp(c) \/ Exchange(c)
        \/ Keep(c) \/ Write(c) \/ Rename(c) \/ SaveFails(c) \/ Refresh(c) \/ Reload(c) \/ Send(c)
    BY <1>11 DEF Starts, Moves, Step
  <2>2. c \in Logins \/ c \in Requests
    BY <1>4, <1>11, <2>1 DEF StartRequest, StartLogin, PasteToken, Handle, Receive, GiveUp, Exchange, Keep, Write,
                      Rename, SaveFails, Refresh, Reload, Send, At, CmdOK
  <2> QED
    BY <1>4, <1>11, <2>2
<1> QED
  BY <1>5, <1>6, <1>7, <1>8, <1>9, <1>10, <1>11

-----------------------------------------------------------------------------
LEMMA LoginInit == Init => LoginInv
<1> SUFFICES ASSUME Init PROVE LoginInv
  OBVIOUS
<1>1. \A c \in Cmds : /\ cmd[c].at = "idle" /\ cmd[c].base = Nil /\ cmd[c].code = Nil /\ cmd[c].conf = Nil
                      /\ cmd[c].token = Nil
  BY FreshIs DEF Init
<1>2. CmdsTyped
  <2>1. cmd \in [Cmds -> Procs]
    BY FreshIs DEF Init
  <2>2. \A c \in Cmds : CmdOK(c, cmd[c])
    BY <1>1, EndedIsOK DEF Ended
  <2> QED
    BY <2>1, <2>2 DEF CmdsTyped
<1>3. /\ tmp = Nil /\ keychain = [b \in Bases |-> Nil] /\ live = {Old(b) : b \in Bases} /\ marks = {} /\ sent = {}
      /\ inbox = [c \in Logins |-> Empty]
      /\ last = [token |-> IF config = Nil THEN Nil ELSE config.token, slips |-> {}]
  BY DEF Init
<1>6. /\ \A c \in Cmds : ~Active(c) /\ ~Changing(c) /\ Phase(c)
      /\ \A c \in Requests : RequestHome(c)
      /\ \A c \in Logouts : LogoutHome(c)
  BY <1>1, CmdsAre DEF Active, Changing, Phase, RequestHome, LogoutHome, Rewriting, At, Ended
<1>4. CASE config = Nil
  <2>0. Nil \notin Configs
    BY LoginAssumption
  <2>1. StoredTyped
    BY <1>3, <1>4, <2>0 DEF StoredTyped, Files, Shaped, Old, Tokens, Empty
  <2>2. Home
    BY <1>3, <1>4, <1>6, <2>0 DEF Home, HomeConf, TokenGoesHome
  <2>3. Unissued
    BY <1>1, <1>3, <1>4, <2>0 DEF Unissued, NoneOf, NotOf
  <2>4. Alone
    BY <1>3, <1>4, <1>6 DEF Alone, Consistent, Session
  <2>5. Revoked
    BY <1>1, CmdsAre DEF Revoked
  <2> QED
    BY <1>2, <2>1, <2>2, <2>3, <2>4, <2>5 DEF LoginInv, Typed
<1>5. CASE config # Nil
  <2>1. PICK b \in Bases : config = [kind |-> "firebase", base |-> b, token |-> Old(b)]
    BY <1>5 DEF Init
  <2>2. Old(b) \in Tokens /\ Old(b) # Nil /\ Old(b).base = b /\ Old(b).by = "old" /\ last.token = Old(b) /\ last.slips = {}
    <3>1. Old(b) \in Tokens /\ Old(b).base = b /\ Old(b).by = "old"
      BY DEF Old, Tokens
    <3> QED
      BY <1>3, <1>5, <2>1, <3>1, LoginAssumption
  <2>3. config \in Configs /\ config.kind = "firebase" /\ config.base = b /\ config.token = Old(b)
    BY <2>1, <2>2 DEF Configs, Kinds
  <2>0. Nil \notin Configs
    BY LoginAssumption
  <2>4. StoredTyped
    <3>1. live \subseteq Tokens
      BY <1>3 DEF Old, Tokens
    <3>2. config \in Files /\ tmp \in Files /\ Shaped(config) /\ Shaped(tmp)
      BY <1>3, <2>0, <2>2, <2>3 DEF Files, Shaped
    <3>3. last \in [token : Tokens \cup {Nil}, slips : SUBSET Cmds]
      BY <1>3, <2>2, <2>3
    <3> QED
      BY <1>3, <3>1, <3>2, <3>3 DEF StoredTyped, Empty
  <2>5. Home
    BY <1>3, <1>6, <2>0, <2>2, <2>3 DEF Home, HomeConf, TokenGoesHome
  <2>6. Unissued
    <3>1. \A c \in Logins : NoneOf(c, config)
      BY <2>2, <2>3, LoginAssumption DEF NoneOf, NotOf
    <3> QED
      BY <1>1, <1>3, <2>0, <3>1 DEF Unissued, NoneOf, NotOf
  <2>7. Consistent
    BY <1>5, <2>2, <2>3 DEF Consistent, Session, Resolve
  <2>8. Alone
    BY <1>6, <2>7 DEF Alone
  <2>9. Revoked
    BY <1>1, CmdsAre DEF Revoked
  <2> QED
    BY <1>2, <2>4, <2>5, <2>6, <2>8, <2>9 DEF LoginInv, Typed
<1> QED
  BY <1>4, <1>5

LEMMA LoginStutters ==
    ASSUME LoginInv, UNCHANGED vars
    PROVE  LoginInv'
<1>1. Typed'
  BY DEF LoginInv, Typed, CmdsTyped, StoredTyped, vars, stored
<1>2. Home'
  BY DEF LoginInv, Home, RequestHome, LogoutHome, TokenGoesHome, Quiet, Active, At, vars, stored
<1>3. Unissued'
  BY DEF LoginInv, Unissued, vars, stored
<1>4. Alone'
  BY DEF LoginInv, Alone, Quiet, Active, At, Changing, Consistent, Session, Slips, Phase, Resolve, vars, stored
<1>5. Revoked'
  BY DEF LoginInv, Revoked, Quiet, vars
<1> QED
  BY <1>1, <1>2, <1>3, <1>4, <1>5 DEF LoginInv

LEMMA LoginKeeps == LoginInv /\ [Next]_vars => LoginInv'
<1> SUFFICES ASSUME LoginInv, [Next]_vars PROVE LoginInv'
  OBVIOUS
<1>1. CASE UNCHANGED vars
  BY <1>1, LoginStutters
<1>2. CASE Next
  <2>1. PICK c \in Cmds : \/ Step(c) \/ Kill(c) \/ StartLogout(c) \/ StartRequest(c)
                          \/ c \in Logins /\ (StartLogin(c) \/ PasteToken(c) \/ Handle(c))
    BY <1>2 DEF Next
  <2>2. Starts(c) \/ Moves(c)
    BY <2>1 DEF Starts, Moves
  <2>3. Typed /\ Home /\ Unissued /\ Alone /\ Revoked
    BY DEF LoginInv
  <2>4. Typed' /\ Home' /\ Unissued' /\ Alone' /\ Revoked'
    BY <2>1, <2>2, <2>3, TypedKeeps, HomeKeeps, UnissuedKeeps, AloneKeeps, RevokedKeeps
  <2> QED
    BY <2>4 DEF LoginInv
<1> QED
  BY <1>1, <1>2

(* A session is readable, but for a logout that slipped.                   *)
LEMMA SessionReads ==
    ASSUME StoredTyped, NEW STATE slips, Session(slips), config \in Configs
    PROVE  Resolve(config) # Nil \/ slips \cap Logouts # {}
<1>1. last.token # Nil /\ config.base \in Bases
  BY LoadedIs DEF Session, Configs
<1>2. \A c \in Logins : [base |-> config.base, by |-> c] \in Tokens
  BY <1>1 DEF Tokens
<1> QED
  BY <1>1, <1>2, LoginAssumption DEF Session

(* The inductive invariant: what every command holds, where whatever is    *)
(* stored belongs, and where each step of a command that runs alone        *)
(* stands.                                                                 *)
THEOREM LoginInvHolds == Spec => []LoginInv
BY LoginInit, LoginKeeps, PTL DEF Spec

(* A token that is stored is only sent to the control plane that issued it *)
(* (currentOperatorCredentialsForRequest), whatever logins, logouts and    *)
(* requests interleave, are killed or fail, short of a logout whose --api  *)
(* names another one (runLogout) and of a request that refreshes its token *)
(* meanwhile; a login only exchanges its own code                          *)
(* (browserLoginCallback.handle).                                          *)
THEOREM TokensAreOwn == Spec => []OwnTokensOnly
<1>1. LoginInv => OwnTokensOnly
  <2> SUFFICES ASSUME LoginInv PROVE OwnTokensOnly
    OBVIOUS
  <2>1. TokenGoesHome
    BY DEF LoginInv, Home, TokenGoesHome, Quiet
  <2>2. CallbackIsOwn
    BY Holds, CmdsAre DEF LoginInv, Typed, CmdOK, CallbackIsOwn
  <2> QED
    BY <2>1, <2>2 DEF OwnTokensOnly
<1> QED
  BY <1>1, LoginInvHolds, PTL

(* What is stored (storeCLIToken, saveAuthConfig, runLogout) is what the   *)
(* last command to succeed left: its token, readable, after a login, and   *)
(* after a logout nothing, with the token it found revoked unless it was   *)
(* sent elsewhere or not at all; for commands that run one at a time, none *)
(* of them killed.  A save or a removal that fails may have changed the    *)
(* keychain under the same control plane.                                  *)
THEOREM TheSessionHolds == Spec => []SessionHolds
<1>1. LoginInv => SessionHolds
  <2> SUFFICES ASSUME LoginInv PROVE SessionHolds
    OBVIOUS
  <2> USE DEF LoginInv
  <2>1. TypeOK
    BY DEF Typed, StoredTyped, Shaped, TypeOK
  <2>2. ASSUME NEW c \in Cmds, Changing(c)
        PROVE  Active(c) /\ ((c \in Logins /\ cmd[c].at \in {"write", "rename"}) \/ c \in Logouts)
    BY <2>2, Holds DEF Typed, CmdOK, Changing, At, Active, Ended
  <2>3. SessionIsLast
    BY <2>2 DEF SessionIsLast, Alone, Consistent
  <2>4. KeychainBacked
    <3> DEFINE Reads == config \in Configs => Resolve(config) # Nil \/ last.slips \cap Logouts # {}
    <3> SUFFICES ASSUME Quiet({"overlap", "killed"}), \A c \in Logouts : ~Active(c) PROVE Reads
      BY DEF KeychainBacked
    <3>1. CASE \E c \in Cmds : Changing(c)
      <4>1. PICK c \in Cmds : Changing(c)
        BY <3>1
      <4>2. c \in Logins /\ c \notin Logouts
        BY <2>2, <4>1, LoginAssumption
      <4>3. Slips(c) \cap Logouts = last.slips \cap Logouts
        BY <4>2 DEF Slips
      <4>4. Session(Slips(c))
        BY <4>1 DEF Alone, Phase
      <4> QED
        BY <4>3, <4>4, SessionReads DEF Typed
    <3>2. CASE \A c \in Cmds : ~Changing(c)
      BY <3>2, SessionReads DEF Alone, Consistent, Typed
    <3> QED
      BY <3>1, <3>2
  <2>5. LogoutRevokes
    BY DEF LogoutRevokes, Revoked, At
  <2> QED
    BY <2>1, <2>3, <2>4, <2>5 DEF SessionHolds
<1> QED
  BY <1>1, LoginInvHolds, PTL

(***************************************************************************)
(* Part 2.  ProjectKeys, for any commands in the checkout, keys, kills and *)
(* deletions.  KeysHold is not inductive: that what is signed fits what is *)
(* pinned rests on what every command holds on its way, and that no seed is *)
(* left unignored on who is filling it in.  KeysInv says both.             *)
(***************************************************************************)
KeysSpec == KeysInit /\ [][KeysNext]_keysVars

(* Where a command holds the key of the seed file, and is yet to load it. *)
Covering == {"ignore", "cover", "covering"}
Loading == {"load", "create", "fill"} \cup Covering
Holding == Covering \cup {"anchor", "append", "inject", "injecting", "build", "plan"}

KeyRecords(issues) ==
    [at : KeySteps, for : {"none", "init", "doctor", "release", "patch", "rollback"},
     then : {"idle", "anchor", "inject", "build", "plan"}, online : BOOLEAN, override : BOOLEAN,
     key : 0 .. issues, read : Yamls, pin : 1 .. MaxKeys \cup {NoKey}, touched : BOOLEAN]

(* soroq.yaml is there, and stays, for who is about to write into it. *)
WritesYaml(p) ==
    \/ p.at \in {"rendering", "provision", "anchor", "append", "inject", "injecting"}
    \/ p.at \in Loading /\ p.then \in {"anchor", "inject"}

(* What a command p holds, given the seed s, how many keys were issued, what *)
(* .gitignore is, and soroq.yaml.                                          *)
KeyCmdOK(p, s, issues, ign, y) ==
    /\ p \in KeyRecords(issues) /\ ValidTrust(p.read)
    /\ WritesYaml(p) => y # NoKey
    /\ p.at \in Loading => p.then # "idle"
    /\ p.at = "fill" => s = 0
    /\ p.at \in Holding \cup {"fill"} => p.key > 0
    /\ p.at \in Holding /\ ~p.touched => s = p.key
    /\ p.at \in Holding \ {"ignore", "cover"} => ign # "lacks"
    /\ p.at = "sign" => p.pin # NoKey /\ (~p.touched => s = p.pin)
    /\ p.at = "trust" /\ p.for = "init" /\ ~p.touched => s # NoKey

KeyCmdsInv ==
    /\ keyCmd = [c \in KeyCmds |-> keyCmd[c]]
    /\ \A c \in KeyCmds : KeyCmdOK(keyCmd[c], seed, issued, ignored, yaml)

(* One command at a time fills the seed in, and unless one was killed an   *)
(* empty seed is being filled in.                                          *)
OneFills ==
    /\ \A c, d \in KeyCmds : Doing(c, "fill") /\ Doing(d, "fill") => c = d
    /\ ~killed /\ seed = 0 => \E c \in KeyCmds : Doing(c, "fill")

PinnedInv == pinned # NoKey /\ ~moved => seed = pinned

GitFile == {"lacks", "cut", "covers"}

FilesTyped ==
    /\ issued \in 0 .. MaxKeys /\ seed \in 0 .. issued \cup {NoKey}
    /\ pinned \in 1 .. MaxKeys \cup {NoKey}
    /\ yaml \in Yamls \cup {NoKey} /\ OneKeyPerId
    /\ ignored \in GitFile /\ moved \in BOOLEAN /\ killed \in BOOLEAN /\ keyFaults \in 0 .. MaxKeyFaults

KeysInv == FilesTyped /\ KeyCmdsInv /\ OneFills /\ PinnedInv /\ SeedIgnored /\ SignedAsPinned

-----------------------------------------------------------------------------
(* The trusted keys that the commands write have one key per id. *)
LEMMA AppendKeepsTrust ==
    ASSUME NEW y \in Yamls, ValidTrust(y), NEW k \in 1 .. MaxKeys
    PROVE  LET z == [y EXCEPT !.keys = AppendManifestTrustKey(@, KeyEntry("project", k))]
           IN  z \in Yamls /\ ValidTrust(z)
<1> DEFINE e == KeyEntry("project", k)
           z == [y EXCEPT !.keys = AppendManifestTrustKey(@, e)]
<1>1. z.keys = {o \in y.keys : o.id # e.id} \cup {e} /\ z.whole = y.whole /\ e \in TrustKeys
  BY DEF Yamls, AppendManifestTrustKey, KeyEntry, TrustKeys
<1>2. z \in Yamls
  BY <1>1 DEF Yamls, AppendManifestTrustKey
<1>3. ValidTrust(z)
  BY <1>1 DEF ValidTrust
<1> QED
  BY <1>2, <1>3

LEMMA IdleIsOK ==
    ASSUME NEW s, NEW issues \in Nat, NEW ign, NEW y
    PROVE  KeyCmdOK(KeyIdle, s, issues, ign, y)
<1>1. ValidTrust(Cut) /\ Cut \in Yamls
  BY DEF ValidTrust, Cut, Yamls
<1> QED
  BY <1>1 DEF KeyCmdOK, KeyIdle, KeyRecords, KeySteps, WritesYaml, Loading, Holding, Covering

(* What a bystander holds stays right while the seed stays, .gitignore is  *)
(* left or is written with the line, and soroq.yaml is there.              *)
LEMMA BystanderHolds ==
    ASSUME NEW p, NEW s, NEW n \in Nat, NEW m \in Nat, NEW i, NEW j, NEW y, NEW z,
           KeyCmdOK(p, s, n, i, y), n <= m, i # "lacks" => j # "lacks", y # NoKey => z # NoKey
    PROVE  KeyCmdOK(p, s, m, j, z)
<1>1. p \in KeyRecords(m)
  BY DEF KeyCmdOK, KeyRecords
<1> QED
  BY <1>1 DEF KeyCmdOK

(* A step of one command that leaves the seed and the records alone.       *)
LEMMA QuietStep ==
    ASSUME KeysInv, KeysAssumption, NEW c \in KeyCmds, NEW q, keyCmd' = [keyCmd EXCEPT ![c] = q],
           KeyCmdOK(q, seed, issued, ignored', yaml'),
           seed' = seed, issued' = issued, NothingSigned, ignored' \in GitFile,
           ignored # "lacks" => ignored' # "lacks",
           ignored' = "cut" => q.at = "covering" \/ (ignored = "cut" /\ keyCmd[c].at # "covering"),
           yaml' \in Yamls \cup {NoKey}, OneKeyPerId', yaml # NoKey => yaml' # NoKey,
           q.at # "fill", keyCmd[c].at # "fill",
           keyCmd[c].at \in {"ignore", "cover"} => ignored' # "lacks" \/ q.at = "cover"
    PROVE  KeysInv'
<1>1. \A d \in KeyCmds : keyCmd'[d] = IF d = c THEN q ELSE keyCmd[d]
  BY DEF KeysInv, KeyCmdsInv
<1>2. pinned' = pinned /\ moved' = moved /\ killed' = killed /\ keyFaults' = keyFaults /\ signed' = NoKey
  BY DEF NothingSigned, records
<1>3. FilesTyped'
  BY <1>2 DEF KeysInv, FilesTyped
<1>4. KeyCmdsInv'
  <2>1. issued \in Nat
    BY DEF KeysInv, FilesTyped
  <2>2. ASSUME NEW d \in KeyCmds PROVE KeyCmdOK(keyCmd'[d], seed', issued', ignored', yaml')
    <3>1. CASE d = c
      BY <3>1, <1>1
    <3>2. CASE d # c
      <4>1. KeyCmdOK(keyCmd[d], seed, issued, ignored, yaml)
        BY DEF KeysInv, KeyCmdsInv
      <4>2. KeyCmdOK(keyCmd[d], seed, issued, ignored', yaml')
        BY <4>1, <2>1, BystanderHolds
      <4> QED
        BY <4>2, <3>2, <1>1
    <3> QED
      BY <3>1, <3>2
  <2>3. keyCmd' = [d \in KeyCmds |-> keyCmd'[d]]
    BY DEF KeysInv, KeyCmdsInv
  <2> QED
    BY <2>2, <2>3 DEF KeyCmdsInv
<1>5. OneFills'
  BY <1>1, <1>2 DEF KeysInv, OneFills, Doing
<1>6. PinnedInv'
  BY <1>2 DEF KeysInv, PinnedInv
<1>7. SeedIgnored'
  BY <1>1, <1>2 DEF KeysInv, SeedIgnored, Doing
<1>8. SignedAsPinned'
  BY <1>2 DEF SignedAsPinned
<1> QED
  BY <1>3, <1>4, <1>5, <1>6, <1>7, <1>8 DEF KeysInv


(* What a command holds as a step of it begins. *)
LEMMA AtHand ==
    ASSUME KeysInv, NEW c \in KeyCmds
    PROVE  /\ KeyCmdOK(keyCmd[c], seed, issued, ignored, yaml)
           /\ keyCmd[c] \in KeyRecords(issued)
           /\ issued \in Nat /\ ignored \in GitFile /\ yaml \in Yamls \cup {NoKey}
           /\ yaml # NoKey => ValidTrust(yaml)
           /\ seed \in 0 .. issued \cup {NoKey}
BY DEF KeysInv, KeyCmdsInv, KeyCmdOK, FilesTyped, OneKeyPerId

LEMMA RecordHeld ==
    ASSUME KeysInv, NEW c \in KeyCmds
    PROVE  keyCmd[c] \in KeyRecords(issued) /\ issued \in Nat
BY AtHand

LEMMA CutIsValid == Cut \in Yamls /\ ValidTrust(Cut)
BY DEF Cut, Yamls, ValidTrust

LEMMA IdleIs ==
    ASSUME NEW issues \in Nat
    PROVE  /\ KeyIdle \in KeyRecords(issues)
           /\ KeyIdle.at = "idle" /\ KeyIdle.for = "none" /\ KeyIdle.then = "idle" /\ KeyIdle.key = 0
           /\ KeyIdle.read = Cut /\ KeyIdle.pin = NoKey /\ ~KeyIdle.override /\ ~KeyIdle.touched
BY CutIsValid DEF KeyIdle, KeyRecords, KeySteps

(* A command that moves on, or starts, while the seed and soroq.yaml rest. *)
LEMMA MoveStep ==
    ASSUME KeysInv, KeysAssumption, NEW c \in KeyCmds, NEW q, keyCmd' = [keyCmd EXCEPT ![c] = q],
           KeyCmdOK(q, seed, issued, ignored, yaml), NothingSigned, q.at # "fill",
           keyCmd[c].at \notin Covering \cup {"fill"}, UNCHANGED <<seed, ignored, yaml, issued>>
    PROVE  KeysInv'
<1>1. OneKeyPerId' /\ yaml' \in Yamls \cup {NoKey} /\ ignored' \in GitFile
  BY DEF KeysInv, FilesTyped, OneKeyPerId
<1> QED
  BY <1>1, QuietStep DEF Covering

(* A command that ends while they rest. *)
LEMMA EndStep ==
    ASSUME KeysInv, KeysAssumption, NEW c \in KeyCmds, EndKeys(c), NothingSigned,
           keyCmd[c].at \notin Covering \cup {"fill"}, UNCHANGED <<seed, ignored, yaml, issued>>
    PROVE  KeysInv'
<1>1. KeyCmdOK(KeyIdle, seed, issued, ignored, yaml) /\ KeyIdle.at # "fill"
  BY AtHand, IdleIsOK, IdleIs
<1> QED
  BY <1>1, MoveStep DEF EndKeys

LEMMA StartsKeep ==
    ASSUME KeysInv, KeysAssumption, NEW c \in KeyCmds, NEW force \in BOOLEAN, NEW online \in BOOLEAN,
           \/ RunInit(c, force, online) \/ ApplyOfflineDoctorFixes(c) \/ RunRelease(c)
           \/ RunPatch(c, force) \/ RunRollback(c, force)
    PROVE  KeysInv'
<1>1. Doing(c, "idle") /\ NothingSigned /\ UNCHANGED <<seed, ignored, yaml, issued>>
  BY DEF RunInit, ApplyOfflineDoctorFixes, RunRelease, RunPatch, RunRollback, Command
<1>2. pinned \in 1 .. MaxKeys \cup {NoKey} /\ (pinned # NoKey /\ ~moved => seed = pinned) /\ moved \in BOOLEAN
  BY DEF KeysInv, FilesTyped, PinnedInv
<1>3. CASE RunInit(c, force, online)
  <2> DEFINE to == IF Renders(force) THEN "render" ELSE "provision"
             q == [KeyIdle EXCEPT !.at = to, !.for = "init", !.online = online]
  <2>2. keyCmd' = [keyCmd EXCEPT ![c] = q]
    BY <1>3 DEF RunInit
  <2>4. to = "render" \/ (to = "provision" /\ yaml # NoKey)
    BY DEF Renders
  <2> HIDE DEF to
  <2>1. q \in KeyRecords(issued) /\ q.read = Cut /\ (q.at = "render" \/ (q.at = "provision" /\ yaml # NoKey))
    BY ZenonT(30), IdleIs, CutIsValid, <2>4, RecordHeld DEF KeyRecords, KeySteps
  <2> HIDE DEF q
  <2>3. KeyCmdOK(q, seed, issued, ignored, yaml) /\ q.at # "fill"
    BY CutIsValid, <1>3, <2>1, AtHand DEF KeyCmdOK, WritesYaml, Loading, Holding, Covering
  <2> QED
    BY <1>1, <1>3, <2>2, <2>3, MoveStep DEF Doing, Covering
<1>4. CASE ApplyOfflineDoctorFixes(c)
  <2> DEFINE q == [KeyIdle EXCEPT !.at = IF yaml = NoKey THEN "render" ELSE "trust", !.for = "doctor"]
  <2>1. q \in KeyRecords(issued) /\ q.then = "idle" /\ q.read = Cut /\ q.at \in {"render", "trust"} /\ q.for = "doctor"
    BY IdleIs, CutIsValid, <1>4, RecordHeld DEF KeyRecords, KeySteps
  <2>2. keyCmd' = [keyCmd EXCEPT ![c] = q]
    BY <1>4 DEF ApplyOfflineDoctorFixes, Command
  <2> HIDE DEF q
  <2>3. KeyCmdOK(q, seed, issued, ignored, yaml) /\ q.at # "fill"
    BY CutIsValid, <1>4, <2>1, AtHand DEF KeyCmdOK, WritesYaml, Loading, Holding, Covering
  <2> QED
    BY <1>1, <1>4, <2>2, <2>3, MoveStep DEF Doing, Covering
<1>5. CASE RunRelease(c)
  <2> DEFINE q == [KeyIdle EXCEPT !.at = "trust", !.for = "release"]
  <2>1. q \in KeyRecords(issued) /\ q.then = "idle" /\ q.read = Cut /\ q.at = "trust" /\ q.for = "release"
    BY IdleIs, CutIsValid, <1>5, RecordHeld DEF KeyRecords, KeySteps
  <2>2. keyCmd' = [keyCmd EXCEPT ![c] = q]
    BY <1>5 DEF RunRelease, Command
  <2> HIDE DEF q
  <2>3. KeyCmdOK(q, seed, issued, ignored, yaml) /\ q.at # "fill"
    BY CutIsValid, <1>5, <2>1, AtHand DEF KeyCmdOK, WritesYaml, Loading, Holding, Covering
  <2> QED
    BY <1>1, <1>5, <2>2, <2>3, MoveStep DEF Doing, Covering
<1>6. CASE RunPatch(c, force)
  <2> DEFINE q == [KeyIdle EXCEPT
           !.at = "load", !.then = "plan", !.for = "patch", !.override = force, !.pin = pinned]
  <2>1. q \in KeyRecords(issued) /\ q.then = "plan" /\ q.read = Cut /\ q.at = "load"
    BY ZenonT(30), IdleIs, CutIsValid, <1>2, <1>6, RecordHeld DEF KeyRecords, KeySteps
  <2>2. keyCmd' = [keyCmd EXCEPT ![c] = q]
    BY <1>6 DEF RunPatch
  <2> HIDE DEF q
  <2>3. KeyCmdOK(q, seed, issued, ignored, yaml) /\ q.at # "fill"
    BY CutIsValid, <1>6, <2>1, AtHand DEF KeyCmdOK, WritesYaml, Loading, Holding, Covering
  <2> QED
    BY <1>1, <1>6, <2>2, <2>3, MoveStep DEF Doing, Covering
<1>7. CASE RunRollback(c, force)
  <2> DEFINE q == [KeyIdle EXCEPT
           !.at = "sign", !.for = "rollback", !.override = force, !.pin = pinned, !.touched = moved]
  <2>1. q \in KeyRecords(issued) /\ q.at = "sign" /\ q.read = Cut /\ q.pin = pinned /\ q.touched = moved
    BY ZenonT(30), IdleIs, CutIsValid, <1>2, <1>7, RecordHeld DEF KeyRecords, KeySteps
  <2>2. keyCmd' = [keyCmd EXCEPT ![c] = q]
    BY <1>7 DEF RunRollback
  <2> HIDE DEF q
  <2>3. KeyCmdOK(q, seed, issued, ignored, yaml) /\ q.at # "fill"
    BY CutIsValid, <1>2, <1>7, <2>1, AtHand DEF KeyCmdOK, WritesYaml, Loading, Holding, Covering, RunRollback
  <2> QED
    BY <1>1, <1>7, <2>2, <2>3, MoveStep DEF Doing, Covering
<1> QED
  BY <1>3, <1>4, <1>5, <1>6, <1>7

(* What a command is left with that goes on to the trusted keys.           *)
LEMMA TrustIs ==
    ASSUME NEW n \in Nat, NEW p \in KeyRecords(n)
    PROVE  LET q == [p EXCEPT !.at = "trust", !.then = "idle", !.key = 0, !.read = Cut]
           IN  q \in KeyRecords(n) /\ q.at = "trust" /\ q.read = Cut /\ q.for = p.for /\ q.touched = p.touched
<1>1. 0 \in 0 .. n /\ Cut \in Yamls
  BY CutIsValid
<1> QED
  BY <1>1 DEF KeyRecords, KeySteps

LEMMA KeysAreKeys ==
    ASSUME KeysInv, KeysAssumption, NEW c \in KeyCmds
    PROVE  NoKey \notin 0 .. issued /\ keyCmd[c].key # NoKey
<1>1. issued \in 0 .. MaxKeys /\ MaxKeys \in Nat /\ keyCmd[c].key \in 0 .. issued
  BY AtHand, KeysAssumption DEF KeysInv, FilesTyped, KeyRecords
<1> QED
  BY <1>1, KeysAssumption

(* init and doctor write soroq.yaml in place: it is cut, then whole. *)
LEMMA RenderKeeps ==
    ASSUME KeysInv, KeysAssumption, NEW c \in KeyCmds, RenderSoroqConfig(c)
    PROVE  KeysInv'
<1>1. /\ NothingSigned /\ UNCHANGED <<seed, ignored, issued>> /\ ignored' \in GitFile
      /\ yaml' \in Yamls /\ yaml' # NoKey /\ OneKeyPerId' /\ ValidTrust(yaml')
  <2>1. yaml' \in Yamls /\ ValidTrust(yaml')
    <3>1. CASE yaml' = Cut
      BY <3>1, CutIsValid
    <3>2. ASSUME NEW keys \in {{}, {KeyEntry("hosted", 0)}}, yaml' = [whole |-> TRUE, keys |-> keys]
          PROVE  yaml' \in Yamls /\ ValidTrust(yaml')
      BY <3>2 DEF Yamls, ValidTrust, TrustKeys
    <3> QED
      BY <3>1, <3>2 DEF RenderSoroqConfig
  <2> QED
    BY <2>1, AtHand, KeysAssumption DEF RenderSoroqConfig, OneKeyPerId
<1>2. CASE Doing(c, "render") /\ To(c, "rendering")
  <2> DEFINE q == [keyCmd[c] EXCEPT !.at = "rendering"]
  <2>1. q \in KeyRecords(issued) /\ q.at = "rendering" /\ q.read = keyCmd[c].read
    BY <1>2, <1>1, RecordHeld DEF KeyRecords, KeySteps
  <2>2. keyCmd' = [keyCmd EXCEPT ![c] = q]
    BY <1>2 DEF To
  <2> HIDE DEF q
  <2>3. KeyCmdOK(q, seed, issued, ignored', yaml') /\ q.at # "fill"
    BY <1>2, <1>1, <2>1, AtHand DEF KeyCmdOK, WritesYaml, Loading, Holding, Covering, Doing
  <2> QED
    BY <1>1, <1>2, <2>2, <2>3, QuietStep DEF Doing, Covering
<1>3. CASE /\ Doing(c, "rendering")
             /\ keyCmd' = [keyCmd EXCEPT ![c].at = IF keyCmd[c].for = "init" THEN "provision" ELSE "trust",
                                         ![c].online = FALSE]
  <2> DEFINE to == IF keyCmd[c].for = "init" THEN "provision" ELSE "trust"
             q == [keyCmd[c] EXCEPT !.at = to, !.online = FALSE]
  <2>1. keyCmd' = [keyCmd EXCEPT ![c] = q]
    BY <1>3
  <2>2. to \in {"provision", "trust"} /\ (to = "trust" => keyCmd[c].for # "init")
    OBVIOUS
  <2> HIDE DEF to
  <2>3. q \in KeyRecords(issued) /\ q.at = to /\ q.for = keyCmd[c].for /\ q.read = keyCmd[c].read
    BY ZenonT(30), <2>2, RecordHeld DEF KeyRecords, KeySteps
  <2> HIDE DEF q
  <2>4. KeyCmdOK(q, seed, issued, ignored', yaml') /\ q.at # "fill"
    BY <1>1, <2>2, <2>3, AtHand DEF KeyCmdOK, WritesYaml, Loading, Holding, Covering
  <2> QED
    BY <1>1, <1>3, <2>1, <2>4, QuietStep DEF Doing, Covering
<1> QED
  BY <1>2, <1>3 DEF RenderSoroqConfig

(* init takes a seed that is there for done; otherwise it makes one. *)
LEMMA ProvisionKeeps ==
    ASSUME KeysInv, KeysAssumption, NEW c \in KeyCmds, EnsureProjectSigningKey(c)
    PROVE  KeysInv'
<1>1. Doing(c, "provision") /\ NothingSigned /\ UNCHANGED <<seed, ignored, yaml, issued>>
  BY DEF EnsureProjectSigningKey
<1>2. CASE SeedToMake
  <2> DEFINE q == [keyCmd[c] EXCEPT !.at = "load", !.then = "anchor"]
  <2>1. q \in KeyRecords(issued) /\ q.at = "load" /\ q.then = "anchor" /\ q.read = keyCmd[c].read
    <3>1. keyCmd[c] \in KeyRecords(issued)
      BY AtHand
    <3> QED
      BY <3>1 DEF KeyRecords, KeySteps
  <2>2. keyCmd' = [keyCmd EXCEPT ![c] = q]
    BY <1>2 DEF EnsureProjectSigningKey
  <2> HIDE DEF q
  <2>3. KeyCmdOK(q, seed, issued, ignored, yaml) /\ q.at # "fill"
    BY <1>2, <1>1, <2>1, AtHand DEF KeyCmdOK, WritesYaml, Loading, Holding, Covering, Doing
  <2> QED
    BY <1>1, <1>2, <2>2, <2>3, MoveStep DEF Doing, Covering
<1>3. CASE ~SeedToMake
  <2> DEFINE q == [keyCmd[c] EXCEPT !.at = "trust", !.then = "idle", !.key = 0, !.read = Cut]
  <2>1. q \in KeyRecords(issued) /\ q.at = "trust" /\ q.read = Cut /\ q.for = keyCmd[c].for /\ q.touched = keyCmd[c].touched
    BY TrustIs, <1>3, <1>1, RecordHeld DEF KeyRecords, KeySteps
  <2>2. keyCmd' = [keyCmd EXCEPT ![c] = q]
    BY <1>3 DEF EnsureProjectSigningKey, ToTrust
  <2> HIDE DEF q
  <2>3. KeyCmdOK(q, seed, issued, ignored, yaml) /\ q.at # "fill"
    BY CutIsValid, <1>3, <1>1, <2>1, AtHand DEF KeyCmdOK, WritesYaml, Loading, Holding, Covering, Doing, SeedToMake
  <2> QED
    BY <1>1, <1>3, <2>2, <2>3, MoveStep DEF Doing, Covering
<1> QED
  BY <1>2, <1>3

(* A seed that is there is loaded, one that is not read as a seed is an    *)
(* error.                                                                  *)
LEMMA LoadKeeps ==
    ASSUME KeysInv, KeysAssumption, NEW c \in KeyCmds, LoadSeed(c)
    PROVE  KeysInv'
<1>1. Doing(c, "load") /\ NothingSigned /\ UNCHANGED <<seed, ignored, yaml, issued>>
  BY DEF LoadSeed
<1>2. CASE seed = NoKey
  <2> DEFINE q == [keyCmd[c] EXCEPT !.at = "create"]
  <2>1. q \in KeyRecords(issued) /\ q.at = "create" /\ q.read = keyCmd[c].read /\ q.then = keyCmd[c].then
    BY <1>2, <1>1, RecordHeld DEF KeyRecords, KeySteps
  <2>2. keyCmd' = [keyCmd EXCEPT ![c] = q]
    BY <1>2 DEF LoadSeed, To
  <2> HIDE DEF q
  <2>3. KeyCmdOK(q, seed, issued, ignored, yaml) /\ q.at # "fill"
    BY <1>2, <1>1, <2>1, AtHand DEF KeyCmdOK, WritesYaml, Loading, Holding, Covering, Doing
  <2> QED
    BY <1>1, <1>2, <2>2, <2>3, MoveStep DEF Doing, Covering
<1>3. CASE seed # NoKey /\ seed = 0
  BY <1>1, <1>3, EndStep DEF Covering, LoadSeed, Doing
<1>4. CASE seed # NoKey /\ seed # 0 /\ seed \in 0 .. issued
  <2> DEFINE q == [keyCmd[c] EXCEPT !.at = "ignore", !.key = seed]
  <2>4. keyCmd[c] \in KeyRecords(issued) /\ seed \in 0 .. issued
    BY <1>4, AtHand
  <2>1. q \in KeyRecords(issued) /\ q.at = "ignore" /\ q.key = seed /\ q.read = keyCmd[c].read /\ q.then = keyCmd[c].then
    BY <2>4 DEF KeyRecords, KeySteps
  <2>2. keyCmd' = [keyCmd EXCEPT ![c] = q]
    BY <1>4 DEF LoadSeed
  <2> HIDE DEF q
  <2>3. KeyCmdOK(q, seed, issued, ignored, yaml) /\ q.at # "fill"
    BY <1>4, <1>1, <2>1, AtHand DEF KeyCmdOK, WritesYaml, Loading, Holding, Covering, Doing
  <2> QED
    BY <1>1, <1>4, <2>2, <2>3, MoveStep DEF Doing, Covering
<1> QED
  BY <1>2, <1>3, <1>4, AtHand

(* Git ignores the seed before its key goes anywhere; while .gitignore is  *)
(* written there is one who writes it.                                     *)
LEMMA IgnoreKeeps ==
    ASSUME KeysInv, KeysAssumption, NEW c \in KeyCmds, EnsureGitignoreLine(c)
    PROVE  KeysInv'
<1>1. /\ NothingSigned /\ UNCHANGED <<seed, yaml, issued>> /\ keyCmd[c].at \in Covering
      /\ yaml' \in Yamls \cup {NoKey} /\ OneKeyPerId'
  BY AtHand DEF EnsureGitignoreLine, OneKeyPerId, Doing, Covering
<1>2. keyCmd[c].then \in {"anchor", "inject", "build", "plan"}
  BY <1>1, AtHand DEF KeyCmdOK, KeyRecords, Loading, Covering
<1>3. PICK to \in {"cover", "covering", keyCmd[c].then} :
           /\ keyCmd' = [keyCmd EXCEPT ![c].at = to]
           /\ ignored' \in GitFile /\ (ignored' = "lacks" => to = "cover" /\ ignored = "lacks")
           /\ ignored' = "cut" => to = "covering" \/ (ignored = "cut" /\ keyCmd[c].at # "covering")
  <2>1. ignored \in GitFile
    BY AtHand
  <2> QED
    BY <2>1 DEF EnsureGitignoreLine, To, Doing, GitFile
<1> DEFINE q == [keyCmd[c] EXCEPT !.at = to]
<1>4. /\ q \in KeyRecords(issued) /\ q.at = to /\ q.then = keyCmd[c].then /\ q.for = keyCmd[c].for
      /\ q.key = keyCmd[c].key /\ q.read = keyCmd[c].read /\ q.touched = keyCmd[c].touched
  BY <1>2, AtHand DEF KeyRecords, KeySteps
<1>5. keyCmd' = [keyCmd EXCEPT ![c] = q]
  BY <1>3
<1> HIDE DEF q
<1>6. KeyCmdOK(q, seed, issued, ignored', yaml') /\ q.at # "fill"
  BY <1>1, <1>2, <1>3, <1>4, AtHand DEF KeyCmdOK, WritesYaml, Loading, Holding, Covering
<1> QED
  BY <1>1, <1>3, <1>4, <1>5, <1>6, QuietStep DEF Covering


(* init's key goes among the trusted ones. *)
LEMMA AnchorKeeps ==
    ASSUME KeysInv, KeysAssumption, NEW c \in KeyCmds, AnchorProjectKey(c)
    PROVE  KeysInv'
<1>1. NothingSigned /\ UNCHANGED <<seed, ignored, issued>> /\ (Doing(c, "anchor") \/ Doing(c, "append"))
  BY DEF AnchorProjectKey
<1>2. CASE Doing(c, "anchor")
  <2>1. Doing(c, "anchor") /\ NothingSigned /\ UNCHANGED <<seed, ignored, yaml, issued>> /\ yaml \in Yamls /\ ValidTrust(yaml)
    BY <1>2, AtHand DEF AnchorProjectKey, Doing, KeyCmdOK, WritesYaml
  <2>2. CASE ToTrust(c)
    <3> DEFINE q == [keyCmd[c] EXCEPT !.at = "trust", !.then = "idle", !.key = 0, !.read = Cut]
    <3>1. q \in KeyRecords(issued) /\ q.at = "trust" /\ q.read = Cut /\ q.for = keyCmd[c].for /\ q.touched = keyCmd[c].touched
      BY TrustIs, <2>2, <2>1, RecordHeld DEF KeyRecords, KeySteps
    <3>2. keyCmd' = [keyCmd EXCEPT ![c] = q]
      BY <2>2 DEF ToTrust
    <3> HIDE DEF q
    <3>3. KeyCmdOK(q, seed, issued, ignored, yaml) /\ q.at # "fill"
      BY CutIsValid, KeysAreKeys, <2>2, <2>1, <3>1, AtHand DEF KeyCmdOK, WritesYaml, Loading, Holding, Covering, Doing
    <3> QED
      BY <2>1, <2>2, <3>2, <3>3, MoveStep DEF Doing, Covering
  <2>3. CASE keyCmd' = [keyCmd EXCEPT ![c].at = "append", ![c].read = yaml]
    <3> DEFINE q == [keyCmd[c] EXCEPT !.at = "append", !.read = yaml]
    <3>1. q \in KeyRecords(issued) /\ q.at = "append" /\ q.read = yaml /\ q.key = keyCmd[c].key /\ q.touched = keyCmd[c].touched
      BY ZenonT(30), <2>3, <2>1, RecordHeld DEF KeyRecords, KeySteps
    <3>2. keyCmd' = [keyCmd EXCEPT ![c] = q]
      BY <2>3 DEF AnchorProjectKey
    <3> HIDE DEF q
    <3>3. KeyCmdOK(q, seed, issued, ignored, yaml) /\ q.at # "fill"
      BY <2>3, <2>1, <3>1, AtHand DEF KeyCmdOK, WritesYaml, Loading, Holding, Covering, Doing
    <3> QED
      BY <2>1, <2>3, <3>2, <3>3, MoveStep DEF Doing, Covering
  <2> QED
    BY <1>2, <2>2, <2>3 DEF AnchorProjectKey, Doing
<1>3. CASE Doing(c, "append")
  <2> DEFINE y == [keyCmd[c].read EXCEPT
                       !.keys = AppendManifestTrustKey(@, KeyEntry("project", keyCmd[c].key))]
  <2>1. yaml' = y /\ ToTrust(c) /\ NothingSigned /\ UNCHANGED <<seed, ignored, issued>>
    BY <1>3 DEF AnchorProjectKey, Doing
  <2>2. keyCmd[c].read \in Yamls /\ ValidTrust(keyCmd[c].read) /\ keyCmd[c].key \in 1 .. MaxKeys
    BY <1>3, AtHand DEF KeyCmdOK, KeyRecords, Holding, Covering, Doing, KeysInv, FilesTyped
  <2>3. y \in Yamls /\ ValidTrust(y)
    BY <2>2, AppendKeepsTrust
  <2> HIDE DEF y
  <2>4. /\ Doing(c, "append") /\ NothingSigned /\ UNCHANGED <<seed, ignored, issued>> /\ ignored' \in GitFile
        /\ yaml' \in Yamls /\ yaml' # NoKey /\ OneKeyPerId' /\ ValidTrust(yaml') /\ ToTrust(c)
    BY <1>3, <2>1, <2>3, AtHand, KeysAssumption DEF OneKeyPerId
  <2>5. CASE TRUE
    <3> DEFINE q == [keyCmd[c] EXCEPT !.at = "trust", !.then = "idle", !.key = 0, !.read = Cut]
    <3>1. q \in KeyRecords(issued) /\ q.at = "trust" /\ q.read = Cut /\ q.for = keyCmd[c].for /\ q.touched = keyCmd[c].touched
      BY TrustIs, <2>5, <2>4, RecordHeld DEF KeyRecords, KeySteps
    <3>2. keyCmd' = [keyCmd EXCEPT ![c] = q]
      BY <2>4 DEF ToTrust
    <3> HIDE DEF q
    <3>3. KeyCmdOK(q, seed, issued, ignored', yaml') /\ q.at # "fill"
      BY CutIsValid, KeysAreKeys, <2>5, <2>4, <3>1, AtHand DEF KeyCmdOK, WritesYaml, Loading, Holding, Covering, Doing
    <3> QED
      BY <2>4, <2>5, <3>2, <3>3, QuietStep DEF Doing, Covering
  <2> QED
    BY <2>5
<1> QED
  BY <1>1, <1>2, <1>3

(* With soroq.yaml settled, a release goes on to the key, others are done. *)
LEMMA ReleaseIs ==
    ASSUME NEW n \in Nat, NEW p \in KeyRecords(n)
    PROVE  LET q == [p EXCEPT !.at = "load", !.then = "build", !.key = 0, !.read = Cut]
           IN  q \in KeyRecords(n) /\ q.at = "load" /\ q.then = "build" /\ q.read = Cut
<1>1. 0 \in 0 .. n /\ Cut \in Yamls
  BY CutIsValid
<1> QED
  BY <1>1 DEF KeyRecords, KeySteps

LEMMA TrustedIs ==
    ASSUME KeysInv, KeysAssumption, NEW c \in KeyCmds, Trusted(c)
    PROVE  \E q : /\ keyCmd' = [keyCmd EXCEPT ![c] = q] /\ q.at # "fill"
                  /\ \A i, y : KeyCmdOK(q, seed, issued, i, y)
<1>1. CASE keyCmd[c].for = "release"
  <2> DEFINE q == [keyCmd[c] EXCEPT !.at = "load", !.then = "build", !.key = 0, !.read = Cut]
  <2>1. q \in KeyRecords(issued) /\ q.at = "load" /\ q.then = "build" /\ q.read = Cut
    BY ReleaseIs, AtHand
  <2>2. keyCmd' = [keyCmd EXCEPT ![c] = q]
    BY <1>1 DEF Trusted
  <2> HIDE DEF q
  <2>3. \A i, y : KeyCmdOK(q, seed, issued, i, y)
    BY <2>1, CutIsValid DEF KeyCmdOK, WritesYaml, Loading, Holding, Covering
  <2> QED
    BY <2>1, <2>2, <2>3
<1>2. CASE keyCmd[c].for # "release"
  <2>1. keyCmd' = [keyCmd EXCEPT ![c] = KeyIdle]
    BY <1>2 DEF Trusted, EndKeys
  <2>2. \A i, y : KeyCmdOK(KeyIdle, seed, issued, i, y)
    BY AtHand, IdleIsOK
  <2> QED
    BY <2>1, <2>2, AtHand, IdleIs
<1> QED
  BY <1>1, <1>2

LEMMA TrustKeeps ==
    ASSUME KeysInv, KeysAssumption, NEW c \in KeyCmds, EnsureManifestTrust(c)
    PROVE  KeysInv'
<1>1. Doing(c, "trust") /\ NothingSigned /\ UNCHANGED <<seed, ignored, yaml, issued>>
  BY DEF EnsureManifestTrust
<1>2. CASE EndKeys(c)
  BY <1>1, <1>2, EndStep DEF Covering, Doing
<1>3. CASE Trusted(c)
  <2>1. PICK q : /\ keyCmd' = [keyCmd EXCEPT ![c] = q] /\ q.at # "fill"
                 /\ \A i, y : KeyCmdOK(q, seed, issued, i, y)
    BY <1>3, TrustedIs
  <2> QED
    BY <1>1, <2>1, MoveStep DEF Doing, Covering
<1>4. CASE /\ yaml # NoKey
             /\ keyCmd' = [keyCmd EXCEPT ![c].at = "load", ![c].then = "inject", ![c].read = yaml]
  <2> DEFINE q == [keyCmd[c] EXCEPT !.at = "load", !.then = "inject", !.read = yaml]
  <2>4. keyCmd[c] \in KeyRecords(issued) /\ yaml \in Yamls
    BY <1>4, AtHand
  <2>1. q \in KeyRecords(issued) /\ q.at = "load" /\ q.then = "inject" /\ q.read = yaml
    BY <2>4 DEF KeyRecords, KeySteps
  <2>2. keyCmd' = [keyCmd EXCEPT ![c] = q]
    BY <1>4 DEF EnsureManifestTrust
  <2> HIDE DEF q
  <2>3. KeyCmdOK(q, seed, issued, ignored, yaml) /\ q.at # "fill"
    BY <1>4, <1>1, <2>1, AtHand DEF KeyCmdOK, WritesYaml, Loading, Holding, Covering, Doing
  <2> QED
    BY <1>1, <1>4, <2>2, <2>3, MoveStep DEF Doing, Covering
<1> QED
  BY <1>2, <1>3, <1>4 DEF EnsureManifestTrust

(* soroq.yaml is written in place: it is cut, then trusts the one key. *)
LEMMA ScaffoldKeeps ==
    ASSUME KeysInv, KeysAssumption, NEW c \in KeyCmds, ScaffoldManifestTrust(c)
    PROVE  KeysInv'
<1>1. CASE Doing(c, "inject") /\ yaml' = Cut /\ To(c, "injecting")
  <2>1. /\ Doing(c, "inject") /\ NothingSigned /\ UNCHANGED <<seed, ignored, issued>> /\ ignored' \in GitFile
        /\ yaml' \in Yamls /\ yaml' # NoKey /\ OneKeyPerId'
    BY <1>1, CutIsValid, AtHand, KeysAssumption DEF ScaffoldManifestTrust, OneKeyPerId
  <2>2. CASE To(c, "injecting")
    <3> DEFINE q == [keyCmd[c] EXCEPT !.at = "injecting"]
    <3>1. q \in KeyRecords(issued) /\ q.at = "injecting" /\ q.read = keyCmd[c].read /\ q.key = keyCmd[c].key /\ q.touched = keyCmd[c].touched
      BY <2>2, <2>1, RecordHeld DEF KeyRecords, KeySteps
    <3>2. keyCmd' = [keyCmd EXCEPT ![c] = q]
      BY <2>2 DEF To
    <3> HIDE DEF q
    <3>3. KeyCmdOK(q, seed, issued, ignored', yaml') /\ q.at # "fill"
      BY <2>2, <2>1, <3>1, AtHand DEF KeyCmdOK, WritesYaml, Loading, Holding, Covering, Doing
    <3> QED
      BY <2>1, <2>2, <3>2, <3>3, QuietStep DEF Doing, Covering
  <2> QED
    BY <1>1, <2>2
<1>2. CASE Doing(c, "injecting") /\ ~Doing(c, "inject")
  <2> DEFINE y == [keyCmd[c].read EXCEPT !.keys = {KeyEntry("signing", keyCmd[c].key)}]
  <2>1. yaml' = y /\ Trusted(c) /\ NothingSigned /\ UNCHANGED <<seed, ignored, issued>>
    BY <1>2 DEF ScaffoldManifestTrust
  <2>2. keyCmd[c].read \in Yamls /\ keyCmd[c].key \in 1 .. MaxKeys
    BY <1>2, AtHand DEF KeyCmdOK, KeyRecords, Holding, Covering, Doing, KeysInv, FilesTyped
  <2>3. KeyEntry("signing", keyCmd[c].key) \in TrustKeys
    BY <2>2 DEF TrustKeys, KeyEntry
  <2>4. y \in Yamls /\ ValidTrust(y)
    BY <2>2, <2>3 DEF Yamls, ValidTrust
  <2> HIDE DEF y
  <2>5. PICK q : /\ keyCmd' = [keyCmd EXCEPT ![c] = q] /\ q.at # "fill"
                 /\ \A i, z : KeyCmdOK(q, seed, issued, i, z)
    BY <2>1, TrustedIs
  <2>6. /\ NothingSigned /\ UNCHANGED <<seed, ignored, issued>> /\ ignored' \in GitFile
        /\ yaml' \in Yamls /\ yaml' # NoKey /\ OneKeyPerId'
    BY <2>1, <2>4, AtHand, KeysAssumption DEF OneKeyPerId
  <2> QED
    BY <1>2, <2>5, <2>6, QuietStep DEF Doing, Covering
<1> QED
  BY <1>1, <1>2 DEF ScaffoldManifestTrust, Doing

(* A patch is planned with the key that the base pins, or not at all.      *)
LEMMA PlanKeeps ==
    ASSUME KeysInv, KeysAssumption, NEW c \in KeyCmds, PlanWithKey(c)
    PROVE  KeysInv'
<1>1. Doing(c, "plan") /\ NothingSigned /\ UNCHANGED <<seed, ignored, yaml, issued>>
  BY DEF PlanWithKey
<1>2. CASE SameBootstrap(c)
  <2> DEFINE q == [keyCmd[c] EXCEPT !.at = "sign"]
  <2>1. q \in KeyRecords(issued) /\ q.at = "sign" /\ q.read = keyCmd[c].read /\ q.pin = keyCmd[c].pin /\ q.touched = keyCmd[c].touched
    BY <1>2, <1>1, RecordHeld DEF KeyRecords, KeySteps
  <2>2. keyCmd' = [keyCmd EXCEPT ![c] = q]
    BY <1>2 DEF PlanWithKey, To
  <2> HIDE DEF q
  <2>3. KeyCmdOK(q, seed, issued, ignored, yaml) /\ q.at # "fill"
    BY KeysAreKeys, <1>2, <1>1, <2>1, AtHand DEF KeyCmdOK, WritesYaml, Loading, Holding, Covering, Doing, SameBootstrap
  <2> QED
    BY <1>1, <1>2, <2>2, <2>3, MoveStep DEF Doing, Covering
<1>3. CASE ~SameBootstrap(c)
  BY <1>1, <1>3, EndStep DEF Covering, PlanWithKey, Doing
<1> QED
  BY <1>2, <1>3

(* A step that only ends a command and keeps records. *)
LEMMA EndKeeps ==
    ASSUME KeysInv, KeysAssumption, NEW c \in KeyCmds, EndKeys(c), UNCHANGED <<seed, ignored, yaml, issued>>,
           pinned' \in 1 .. MaxKeys \cup {NoKey}, moved' \in BOOLEAN, killed' \in BOOLEAN,
           keyFaults' \in 0 .. MaxKeyFaults, PinnedInv', pinned' # NoKey => ignored # "lacks", SignedAsPinned',
           killed => killed', keyCmd[c].at \in Covering \cup {"fill"} => killed'
    PROVE  KeysInv'
<1>1. \A d \in KeyCmds : keyCmd'[d] = IF d = c THEN KeyIdle ELSE keyCmd[d]
  BY DEF KeysInv, KeyCmdsInv, EndKeys
<1>2. KeyIdle.at = "idle"
  BY AtHand, IdleIs
<1>3. FilesTyped'
  BY DEF KeysInv, FilesTyped, OneKeyPerId
<1>4. KeyCmdsInv'
  <2>1. \A d \in KeyCmds : KeyCmdOK(keyCmd'[d], seed, issued, ignored, yaml)
    BY <1>1, AtHand, IdleIsOK DEF KeysInv, KeyCmdsInv
  <2>2. keyCmd' = [d \in KeyCmds |-> keyCmd'[d]]
    BY DEF KeysInv, KeyCmdsInv, EndKeys
  <2> QED
    BY <2>1, <2>2 DEF KeyCmdsInv
<1>5. OneFills'
  BY <1>1, <1>2 DEF KeysInv, OneFills, Doing
<1>6. SeedIgnored'
  BY <1>1, <1>2 DEF KeysInv, SeedIgnored, Covering, Doing
<1> QED
  BY <1>3, <1>4, <1>5, <1>6 DEF KeysInv

(* A release pins the key that its command holds. *)
LEMMA PinKeeps ==
    ASSUME KeysInv, KeysAssumption, NEW c \in KeyCmds, PinKey(c)
    PROVE  KeysInv'
<1>1. /\ keyCmd[c].key \in 1 .. MaxKeys /\ ignored # "lacks" /\ keyCmd[c].touched \in BOOLEAN
      /\ ~keyCmd[c].touched => seed = keyCmd[c].key
  BY AtHand DEF PinKey, Doing, KeyCmdOK, KeyRecords, Holding, KeysInv, FilesTyped
<1>2. PinnedInv' /\ SignedAsPinned'
  BY <1>1 DEF PinKey, PinnedInv, SignedAsPinned
<1>3. killed' = killed /\ killed \in BOOLEAN /\ keyFaults' \in 0 .. MaxKeyFaults
  BY DEF PinKey, KeysInv, FilesTyped
<1> QED
  BY <1>1, <1>2, <1>3, EndKeeps DEF PinKey, Doing, Covering

(* What is signed without an override is signed with what the base pins.   *)
LEMMA SignKeeps ==
    ASSUME KeysInv, KeysAssumption, NEW c \in KeyCmds, ResolveSigningSeed(c)
    PROVE  KeysInv'
<1>1. SignedAsPinned'
  <2>1. ~keyCmd[c].touched => seed = keyCmd[c].pin
    BY AtHand DEF KeyCmdOK, ResolveSigningSeed, Doing
  <2>2. CASE signed' = signed
    BY <2>2 DEF KeysInv, SignedAsPinned
  <2>3. CASE signed' = [by |-> IF keyCmd[c].override THEN 0 ELSE seed, pin |-> keyCmd[c].pin,
                        override |-> keyCmd[c].override, touched |-> keyCmd[c].touched]
    BY <2>1, <2>3 DEF SignedAsPinned
  <2> QED
    BY <2>2, <2>3 DEF ResolveSigningSeed
<1>2. /\ UNCHANGED <<pinned, moved, killed, keyFaults, seed>> /\ EndKeys(c) /\ Doing(c, "sign")
      /\ UNCHANGED <<ignored, yaml, issued>>
  BY DEF ResolveSigningSeed
<1>3. /\ pinned' \in 1 .. MaxKeys \cup {NoKey} /\ moved' \in BOOLEAN /\ killed' \in BOOLEAN
      /\ keyFaults' \in 0 .. MaxKeyFaults /\ PinnedInv' /\ (pinned' # NoKey => ignored # "lacks")
  BY <1>2 DEF KeysInv, FilesTyped, PinnedInv, SeedIgnored
<1> QED
  BY <1>1, <1>2, <1>3, EndKeeps DEF Doing, Covering

LEMMA KillKeeps ==
    ASSUME KeysInv, KeysAssumption, NEW c \in KeyCmds, KillKeyCmd(c)
    PROVE  KeysInv'
<1>1. /\ UNCHANGED <<pinned, moved, seed, ignored, yaml, issued>> /\ EndKeys(c) /\ killed' = TRUE
      /\ keyFaults' \in 0 .. MaxKeyFaults /\ signed' = NoKey
  BY KeysAssumption DEF KillKeyCmd, KeyFault, KeysInv, FilesTyped
<1>2. /\ pinned' \in 1 .. MaxKeys \cup {NoKey} /\ moved' \in BOOLEAN /\ killed' \in BOOLEAN
      /\ PinnedInv' /\ (pinned' # NoKey => ignored # "lacks") /\ SignedAsPinned'
  BY <1>1 DEF KeysInv, FilesTyped, PinnedInv, SeedIgnored, SignedAsPinned
<1> QED
  BY <1>1, <1>2, EndKeeps

(* What the others hold once there is a seed where there was none.         *)
LEMMA BystanderOfSeed ==
    ASSUME NEW p, NEW s, NEW n \in Nat, NEW m \in Nat, NEW i, NEW y,
           KeyCmdOK(p, NoKey, n, i, y), n <= m, NoKey \notin 0 .. n
    PROVE  p.at # "fill" /\ KeyCmdOK(p, s, m, i, y)
<1>1. p \in KeyRecords(m) /\ p.key # NoKey /\ NoKey # 0
  BY DEF KeyCmdOK, KeyRecords
<1> QED
  BY <1>1 DEF KeyCmdOK

(* O_EXCL: only where there is no seed is one made, and only one command   *)
(* makes it.                                                               *)
LEMMA CreateKeeps ==
    ASSUME KeysInv, KeysAssumption, NEW c \in KeyCmds, CreateSeed(c)
    PROVE  KeysInv'
<1>1. Doing(c, "create") /\ NothingSigned /\ UNCHANGED <<ignored, yaml>>
  BY DEF CreateSeed
<1>2. CASE ~MayCreate
  BY <1>1, <1>2, EndStep DEF Covering, CreateSeed, Doing
<1>3. CASE MayCreate
  <2> DEFINE q == [keyCmd[c] EXCEPT !.at = "fill", !.key = issued + 1]
  <2>1. /\ seed = NoKey /\ seed' = 0 /\ issued' = issued + 1 /\ issued < MaxKeys
        /\ issued \in Nat /\ issued' \in Nat /\ issued' \in 0 .. MaxKeys /\ issued \in 0 .. MaxKeys
        /\ NoKey \notin 0 .. issued
    BY <1>3, KeysAssumption DEF MayCreate, CreateSeed, KeysInv, FilesTyped
  <2>2. keyCmd[c] \in KeyRecords(issued + 1) /\ issued + 1 \in 0 .. (issued + 1)
    BY <2>1, AtHand DEF KeyRecords
  <2>3. /\ q \in KeyRecords(issued + 1) /\ q.at = "fill" /\ q.key = issued + 1
        /\ q.read = keyCmd[c].read /\ q.then = keyCmd[c].then
    BY <2>2 DEF KeyRecords, KeySteps
  <2>4. keyCmd' = [keyCmd EXCEPT ![c] = q]
    BY <1>3, <2>1 DEF CreateSeed
  <2> HIDE DEF q
  <2>5. KeyCmdOK(q, 0, issued + 1, ignored, yaml)
    BY <1>1, <2>1, <2>3, AtHand DEF KeyCmdOK, WritesYaml, Loading, Holding, Covering, Doing
  <2>6. \A d \in KeyCmds : keyCmd'[d] = IF d = c THEN q ELSE keyCmd[d]
    BY <2>4 DEF KeysInv, KeyCmdsInv
  <2>7. ASSUME NEW d \in KeyCmds, d # c
        PROVE  keyCmd[d].at # "fill" /\ KeyCmdOK(keyCmd[d], 0, issued + 1, ignored, yaml)
    <3>1. KeyCmdOK(keyCmd[d], NoKey, issued, ignored, yaml)
      BY <2>1, AtHand
    <3>2. issued <= issued + 1 /\ issued + 1 \in Nat
      BY <2>1
    <3> QED
      BY <2>1, <3>1, <3>2, BystanderOfSeed
  <2>8. KeyCmdsInv'
    <3>1. \A d \in KeyCmds : KeyCmdOK(keyCmd'[d], seed', issued', ignored', yaml')
      BY <1>1, <2>1, <2>5, <2>6, <2>7
    <3>2. keyCmd' = [d \in KeyCmds |-> keyCmd'[d]]
      BY <2>4 DEF KeysInv, KeyCmdsInv
    <3> QED
      BY <3>1, <3>2 DEF KeyCmdsInv
  <2>9. OneFills'
    BY <2>3, <2>6, <2>7 DEF OneFills, Doing
  <2>10. UNCHANGED <<pinned, moved, killed, keyFaults>> /\ signed' = NoKey
    BY <1>1 DEF NothingSigned, records
  <2>11. FilesTyped'
    BY <1>1, <2>1, <2>10 DEF KeysInv, FilesTyped, OneKeyPerId
  <2>12. PinnedInv'
    BY <2>1, <2>10 DEF KeysInv, PinnedInv, FilesTyped
  <2>13. SeedIgnored'
    BY <1>1, <2>3, <2>6, <2>10 DEF KeysInv, SeedIgnored, Doing
  <2>14. SignedAsPinned'
    BY <2>10 DEF SignedAsPinned
  <2> QED
    BY <2>8, <2>9, <2>11, <2>12, <2>13, <2>14 DEF KeysInv
<1> QED
  BY <1>2, <1>3

(* Who fills the seed in is alone: all others hold no key of it.           *)
LEMMA FillKeeps ==
    ASSUME KeysInv, KeysAssumption, NEW c \in KeyCmds, FillSeed(c)
    PROVE  KeysInv'
<1>1. Doing(c, "fill") /\ NothingSigned /\ UNCHANGED <<ignored, yaml, issued>> /\ seed' = keyCmd[c].key
  BY DEF FillSeed
<1>2. seed = 0 /\ keyCmd[c].key \in 1 .. issued /\ keyCmd[c].then # "idle" /\ NoKey # 0 /\ NoKey \notin 0 .. issued
  BY <1>1, AtHand, KeysAssumption DEF KeyCmdOK, Loading, Covering, Doing, KeyRecords, KeysInv, FilesTyped
<1> DEFINE q == [keyCmd[c] EXCEPT !.at = "ignore"]
<1>3. /\ q \in KeyRecords(issued) /\ q.at = "ignore" /\ q.key = keyCmd[c].key
      /\ q.read = keyCmd[c].read /\ q.then = keyCmd[c].then
  BY AtHand DEF KeyRecords, KeySteps
<1>4. keyCmd' = [keyCmd EXCEPT ![c] = q]
  BY DEF FillSeed, To
<1> HIDE DEF q
<1>5. KeyCmdOK(q, seed', issued', ignored', yaml')
  BY <1>1, <1>2, <1>3, AtHand DEF KeyCmdOK, WritesYaml, Loading, Holding, Covering, Doing
<1>6. \A d \in KeyCmds : keyCmd'[d] = IF d = c THEN q ELSE keyCmd[d]
  BY <1>4 DEF KeysInv, KeyCmdsInv
<1>7. ASSUME NEW d \in KeyCmds, d # c
      PROVE  keyCmd[d].at # "fill" /\ KeyCmdOK(keyCmd[d], seed', issued', ignored', yaml')
  <2>1. keyCmd[d].at # "fill"
    BY <1>1, <1>7 DEF KeysInv, OneFills, Doing
  <2>2. KeyCmdOK(keyCmd[d], 0, issued, ignored, yaml)
    BY <1>2, AtHand
  <2>3. keyCmd[d].pin # 0 /\ seed' # NoKey
    BY <1>1, <1>2, AtHand, KeysAssumption DEF KeyRecords
  <2>4. keyCmd[d].key \in Nat
    BY AtHand DEF KeyRecords
  <2> QED
    BY <1>1, <2>1, <2>2, <2>3, <2>4 DEF KeyCmdOK
<1>8. KeyCmdsInv'
  <2>1. \A d \in KeyCmds : KeyCmdOK(keyCmd'[d], seed', issued', ignored', yaml')
    BY <1>5, <1>6, <1>7
  <2>2. keyCmd' = [d \in KeyCmds |-> keyCmd'[d]]
    BY <1>4 DEF KeysInv, KeyCmdsInv
  <2> QED
    BY <2>1, <2>2 DEF KeyCmdsInv
<1>9. OneFills'
  BY <1>1, <1>2, <1>3, <1>6, <1>7 DEF OneFills, Doing
<1>10. UNCHANGED <<pinned, moved, killed, keyFaults>> /\ signed' = NoKey
  BY <1>1 DEF NothingSigned, records
<1>11. FilesTyped'
  BY <1>1, <1>2, <1>10 DEF KeysInv, FilesTyped, OneKeyPerId
<1>12. PinnedInv'
  BY <1>2, <1>10 DEF KeysInv, PinnedInv, FilesTyped
<1>13. SeedIgnored'
  BY <1>1, <1>3, <1>6, <1>10 DEF KeysInv, SeedIgnored, Doing
<1>14. SignedAsPinned'
  BY <1>10 DEF SignedAsPinned
<1> QED
  BY <1>8, <1>9, <1>11, <1>12, <1>13, <1>14 DEF KeysInv

(* A developer deletes the seed: who is under way has lost sight of it.    *)
LEMMA DeleteKeeps ==
    ASSUME KeysInv, KeysAssumption, DeleteSeed
    PROVE  KeysInv'
<1>1. /\ seed' = NoKey /\ moved' /\ moved' \in BOOLEAN /\ UNCHANGED <<ignored, yaml, issued, pinned, killed>>
      /\ keyFaults' \in 0 .. MaxKeyFaults /\ signed' = NoKey /\ \A c \in KeyCmds : ~Doing(c, "fill")
  BY KeysAssumption DEF DeleteSeed, KeyFault, KeysInv, FilesTyped
<1>2. ASSUME NEW c \in KeyCmds
      PROVE  keyCmd'[c].at = keyCmd[c].at /\ KeyCmdOK(keyCmd'[c], seed', issued', ignored', yaml')
  <2> DEFINE b == ~Doing(c, "idle")
             q == [keyCmd[c] EXCEPT !.touched = b]
  <2>1. b \in BOOLEAN
    OBVIOUS
  <2>2. b = (keyCmd[c].at # "idle")
    BY DEF Doing
  <2> HIDE DEF b
  <2>3. /\ q \in KeyRecords(issued) /\ q.at = keyCmd[c].at /\ q.key = keyCmd[c].key /\ q.touched = b
        /\ q.read = keyCmd[c].read /\ q.then = keyCmd[c].then /\ q.pin = keyCmd[c].pin /\ q.for = keyCmd[c].for
    BY <2>1, AtHand DEF KeyRecords
  <2>4. keyCmd'[c] = q
    BY DEF DeleteSeed, b
  <2> HIDE DEF q
  <2>5. keyCmd[c].at # "fill"
    BY <1>1 DEF Doing
  <2> QED
    BY <1>1, <2>2, <2>3, <2>4, <2>5, AtHand DEF KeyCmdOK, WritesYaml, Loading, Holding, Covering
<1>3. KeyCmdsInv'
  BY <1>2 DEF KeyCmdsInv, DeleteSeed
<1>4. OneFills' /\ SeedIgnored' /\ PinnedInv' /\ SignedAsPinned'
  BY <1>1, <1>2, KeysAssumption DEF KeysInv, OneFills, SeedIgnored, PinnedInv, SignedAsPinned, Doing
<1>5. FilesTyped'
  BY <1>1 DEF KeysInv, FilesTyped, OneKeyPerId
<1> QED
  BY <1>3, <1>4, <1>5 DEF KeysInv

LEMMA LoseKeeps ==
    ASSUME KeysInv, KeysAssumption, LoseTrust
    PROVE  KeysInv'
<1>1. /\ UNCHANGED <<seed, ignored, issued, pinned, keyCmd, moved, killed>> /\ signed' = NoKey
      /\ keyFaults' \in 0 .. MaxKeyFaults /\ yaml # NoKey /\ yaml' = [yaml EXCEPT !.keys = {}]
  BY KeysAssumption DEF LoseTrust, KeyFault, KeysInv, FilesTyped
<1>2. yaml \in Yamls
  BY <1>1, AtHand DEF KeysInv, FilesTyped
<1>3. yaml' \in Yamls /\ yaml' # NoKey /\ OneKeyPerId'
  BY <1>1, <1>2, KeysAssumption DEF Yamls, OneKeyPerId, ValidTrust
<1>4. FilesTyped'
  BY <1>1, <1>3 DEF KeysInv, FilesTyped
<1>5. KeyCmdsInv'
  <2>1. ASSUME NEW c \in KeyCmds PROVE KeyCmdOK(keyCmd[c], seed, issued, ignored, yaml')
    BY <1>1, <1>3, AtHand, BystanderHolds
  <2> QED
    BY <1>1, <2>1 DEF KeysInv, KeyCmdsInv
<1>6. OneFills' /\ SeedIgnored' /\ PinnedInv' /\ SignedAsPinned'
  BY <1>1 DEF KeysInv, OneFills, SeedIgnored, PinnedInv, SignedAsPinned, Doing
<1> QED
  BY <1>4, <1>5, <1>6 DEF KeysInv

-----------------------------------------------------------------------------
LEMMA KeysInvInitially ==
    ASSUME KeysAssumption, KeysInit
    PROVE  KeysInv
<1>1. issued \in Nat /\ KeyIdle.at = "idle"
  BY IdleIs DEF KeysInit
<1>2. KeyCmdsInv
  <2>1. \A c \in KeyCmds : keyCmd[c] = KeyIdle
    BY DEF KeysInit
  <2> QED
    BY <1>1, <2>1, IdleIsOK DEF KeyCmdsInv, KeysInit
<1>3. OneFills /\ PinnedInv /\ SeedIgnored /\ SignedAsPinned
  <2>1. NoKey # 0 /\ seed = NoKey /\ pinned = NoKey /\ signed = NoKey
    BY KeysAssumption DEF KeysInit
  <2>2. ignored = "lacks" /\ \A c \in KeyCmds : ~Doing(c, "fill")
    BY <1>1 DEF KeysInit, Doing
  <2> QED
    BY <2>1, <2>2 DEF OneFills, PinnedInv, SeedIgnored, SignedAsPinned
<1>4. FilesTyped
  <2>1. issued \in 0 .. MaxKeys /\ keyFaults \in 0 .. MaxKeyFaults
    BY KeysAssumption DEF KeysInit
  <2>2. seed = NoKey /\ pinned = NoKey /\ yaml = NoKey
    BY DEF KeysInit
  <2>3. ignored \in GitFile /\ moved \in BOOLEAN /\ killed \in BOOLEAN
    BY DEF KeysInit, GitFile
  <2> QED
    BY <2>1, <2>2, <2>3 DEF FilesTyped, OneKeyPerId
<1> QED
  BY <1>2, <1>3, <1>4 DEF KeysInv

LEMMA KeysInvInductive ==
    ASSUME KeysAssumption, KeysInv, [KeysNext]_keysVars
    PROVE  KeysInv'
<1>1. CASE UNCHANGED keysVars
  BY <1>1 DEF keysVars, KeysInv, FilesTyped, OneKeyPerId, KeyCmdsInv, OneFills, PinnedInv, SeedIgnored,
              SignedAsPinned, Doing
<1>2. ASSUME NEW c \in KeyCmds, NEW force \in BOOLEAN, NEW online \in BOOLEAN,
             \/ RunInit(c, force, online) \/ ApplyOfflineDoctorFixes(c) \/ RunRelease(c)
             \/ RunPatch(c, force) \/ RunRollback(c, force)
      PROVE  KeysInv'
  BY <1>2, StartsKeep
<1>3. ASSUME NEW c \in KeyCmds,
             \/ RenderSoroqConfig(c) \/ EnsureProjectSigningKey(c)
             \/ LoadSeed(c) \/ CreateSeed(c) \/ FillSeed(c) \/ EnsureGitignoreLine(c)
             \/ AnchorProjectKey(c) \/ EnsureManifestTrust(c) \/ ScaffoldManifestTrust(c)
             \/ PinKey(c) \/ PlanWithKey(c) \/ ResolveSigningSeed(c) \/ KillKeyCmd(c)
      PROVE  KeysInv'
  BY <1>3, RenderKeeps, ProvisionKeeps, LoadKeeps, CreateKeeps, FillKeeps, IgnoreKeeps, AnchorKeeps,
     TrustKeeps, ScaffoldKeeps, PinKeeps, PlanKeeps, SignKeeps, KillKeeps
<1> QED
  BY <1>1, <1>2, <1>3, DeleteKeeps, LoseKeeps DEF KeysNext

(* What the commands hold on their way, and in which order the files come  *)
(* about, is always so.                                                    *)
THEOREM KeysInvHolds == KeysSpec => []KeysInv
<1>1. KeysInit => KeysInv
  BY KeysAssumption, KeysInvInitially
<1>2. KeysInv /\ [KeysNext]_keysVars => KeysInv'
  BY KeysAssumption, KeysInvInductive
<1> QED
  BY <1>1, <1>2, PTL DEF KeysSpec

(* The key that is trusted, pinned and signed with is one, and .gitignore   *)
(* covers its seed but while a command rewrites it or after a kill cut it, *)
(* whatever commands run in the checkout at a time, in any interleaving.   *)
THEOREM TheKeyIsOne == KeysSpec => []KeysHold
<1>1. KeysInv => KeysHold
  <2> SUFFICES ASSUME KeysInv PROVE KeysHold
    OBVIOUS
  <2>1. KeysTypeOK
    <3>1. seed \in 0 .. MaxKeys \cup {NoKey}
      BY KeysAssumption DEF KeysInv, FilesTyped
    <3>2. \A c \in KeyCmds :
             /\ keyCmd[c].at \in KeySteps /\ keyCmd[c].key \in 0 .. issued /\ keyCmd[c].read \in Yamls
             /\ keyCmd[c].at \in {"fill", "ignore", "cover", "covering", "anchor", "append", "inject",
                                  "injecting", "build", "plan"} => keyCmd[c].key > 0
      BY AtHand DEF KeyCmdOK, KeyRecords, Holding, Covering
    <3> QED
      BY <3>1, <3>2 DEF KeysTypeOK, KeysInv, FilesTyped, GitFile
  <2> QED
    BY <2>1 DEF KeysHold, KeysInv, FilesTyped
<1> QED
  BY <1>1, KeysInvHolds, PTL

(* No command replaces a seed that holds a key, and an init that ends well *)
(* leaves one to sign with.                                                *)
THEOREM TheSeedStays == KeysSpec => SeedStays
<1>1. ASSUME KeysInv, [KeysNext]_keysVars PROVE [SeedIsKept /\ InitMakesSignable]_keysVars
  <2>1. SeedIsKept
    <3> SUFFICES ASSUME seed \in 1 .. MaxKeys PROVE seed' \in {seed, NoKey}
      BY DEF SeedIsKept
    <3>1. seed # NoKey /\ seed # 0
      BY KeysAssumption
    <3>2. \A c \in KeyCmds : ~Doing(c, "fill")
      BY <1>1, <3>1, AtHand DEF Doing, KeyCmdOK
    <3> QED
      BY ZenonT(30), <1>1, <3>1, <3>2 DEF KeysNext, keysVars, RunInit, ApplyOfflineDoctorFixes, RunRelease, RunPatch,
         RunRollback, RenderSoroqConfig, EnsureProjectSigningKey, LoadSeed, CreateSeed, MayCreate, FillSeed,
         EnsureGitignoreLine, AnchorProjectKey, EnsureManifestTrust, ScaffoldManifestTrust, PinKey,
         PlanWithKey, ResolveSigningSeed, KillKeyCmd, DeleteSeed, LoseTrust
  <2>2. InitMakesSignable
    <3> SUFFICES ASSUME NEW c \in KeyCmds, Doing(c, "trust"), keyCmd[c].for = "init", ~killed,
                        ~keyCmd[c].touched
                 PROVE  seed \in 1 .. MaxKeys \/ \E o \in KeyCmds : Doing(o, "fill")
      BY DEF InitMakesSignable
    <3>1. seed # NoKey
      BY <1>1, AtHand DEF Doing, KeyCmdOK
    <3>2. seed \in 0 .. MaxKeys
      BY <1>1, <3>1, KeysAssumption DEF KeysInv, FilesTyped
    <3>3. seed = 0 => \E o \in KeyCmds : Doing(o, "fill")
      BY <1>1 DEF KeysInv, OneFills
    <3> QED
      BY <3>2, <3>3, KeysAssumption
  <2> QED
    BY <2>1, <2>2
<1>2. KeysInv /\ [KeysNext]_keysVars => [SeedIsKept /\ InitMakesSignable]_keysVars
  BY <1>1
<1> QED
  BY <1>2, KeysInvHolds, PTL DEF KeysSpec, SeedStays


-----------------------------------------------------------------------------
=============================================================================
