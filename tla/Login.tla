------------------------------- MODULE Login -------------------------------
(***************************************************************************)
(* The operator's credentials (auth_cmd.go, auth_browser_cmd.go): a login  *)
(* in the browser or with a token, a logout, and requests that use what is *)
(* stored.  A token of the CLI is in the keychain, under the control plane *)
(* that issued it, and config.json says so; other kinds are in config.json *)
(* itself.  config.json is replaced by a rename of one fixed .tmp file and *)
(* nothing locks it.  The keychain changes before config.json does, and    *)
(* saving or removing config.json may fail then.                           *)
(*                                                                         *)
(* A token is the control plane that issued it and the command it was      *)
(* issued to; "old" tokens were stored before the run.                     *)
(***************************************************************************)
EXTENDS Naturals, FiniteSets

CONSTANTS
    Nil,      \* nothing stored, no answer
    Torn,     \* a config.json that was not written to its end
    Logins, Logouts, Requests,  \* the commands
    Bases,    \* the control planes
    MaxFaults \* bound on kills, lost answers, keychain and file errors

Cmds == Logins \cup Logouts \cup Requests
Kinds == {"cli", "operator", "firebase"}
Tokens == [base : Bases, by : Logins \cup {"old"}]
Configs == [kind : Kinds, base : Bases, token : Tokens \cup {Nil}]
Files == Configs \cup {Nil, Torn}

(* A command is one of the three; old tokens are nobody's of them.         *)
ASSUME LoginAssumption ==
    /\ IsFiniteSet(Cmds) /\ MaxFaults \in Nat
    /\ Logins \cap Logouts = {} /\ Logins \cap Requests = {} /\ Logouts \cap Requests = {}
    /\ "old" \notin Logins /\ Torn # Nil
    /\ {Nil, Torn} \cap (Bases \cup Logins \cup Tokens \cup Configs) = {}

VARIABLES
    config,   \* config.json
    tmp,      \* config.json.tmp
    keychain, \* the token kept for each control plane
    live,     \* the tokens that the control planes accept
    inbox,    \* what the browser delivered to each login's callback
    cmd,      \* what each command is doing
    last,     \* the token that the last login or logout to succeed left, and
              \* the slips since: those that failed with the keychain changed (history)
    sent,     \* requests sent with a stored credential (history)
    marks,    \* what has happened that a guarantee excepts (history)
    faults    \* faults so far (bound)

stored == <<config, tmp, keychain>>
vars == <<config, tmp, keychain, live, inbox, cmd, last, sent, marks, faults>>

Empty == [result |-> Nil, err |-> FALSE]
Old(b) == [base |-> b, by |-> "old"]
Fresh == [at |-> "idle", base |-> Nil, code |-> Nil, conf |-> Nil, token |-> Nil]

Init ==
    /\ config \in {Nil} \cup {[kind |-> "firebase", base |-> b, token |-> Old(b)] : b \in Bases}
    /\ tmp = Nil /\ keychain = [b \in Bases |-> Nil]
    /\ live = {Old(b) : b \in Bases}
    /\ inbox = [c \in Logins |-> Empty]
    /\ cmd = [c \in Cmds |-> Fresh]
    /\ last = [token |-> IF config = Nil THEN Nil ELSE config.token, slips |-> {}]
    /\ sent = {} /\ marks = {} /\ faults = 0

Ended == {"idle", "done", "failed", "killed"}
At(c, step) == cmd[c].at = step
Active(c) == cmd[c].at \notin Ended
Go(c, step) == cmd' = [cmd EXCEPT ![c].at = step]
Set(c, r) == cmd' = [cmd EXCEPT ![c] = r]
End(c, how) == Set(c, [Fresh EXCEPT !.at = how])
Fault == faults < MaxFaults /\ faults' = faults + 1

(* loadAuthConfig: a torn file is an error, as one that is not there.      *)
Loaded == IF config = Torn THEN Nil ELSE config

(* resolveCLITokenValue and the choice of currentOperatorCredentials.      *)
Resolve(conf) ==
    IF conf.kind = "cli" /\ conf.token = Nil THEN keychain[conf.base] ELSE conf.token

(* A command that starts while others run, and one that meets a request    *)
(* that is refreshing its token.                                           *)
Started(c) ==
    marks \cup {m \in {"overlap"} : \E d \in Cmds \ {c} : Active(d)}
          \cup {m \in {"refresh"} : \E d \in Requests \ {c} :
                    cmd[d].at \in {"refresh", "reload", "write", "rename"}}

-----------------------------------------------------------------------------
(* runBrowserLogin: the verifier, the callback server with its state, the  *)
(* browser.                                                                *)
StartLogin(c) ==
    /\ c \in Logins /\ At(c, "idle")
    /\ \E b \in Bases : Set(c, [Fresh EXCEPT !.at = "waiting", !.base = b])
    /\ marks' = Started(c)
    /\ UNCHANGED <<stored, live, inbox, last, sent, faults>>

(* runLogin with --token: the control plane is asked before it is stored.  *)
PasteToken(c) ==
    /\ c \in Logins /\ At(c, "idle")
    /\ \E b \in Bases :
        /\ live' = live \cup {[base |-> b, by |-> c]}
        /\ Set(c, [Fresh EXCEPT !.at = "write", !.base = b,
                   !.conf = [kind |-> "operator", base |-> b,
                             token |-> [base |-> b, by |-> c]]])
    /\ marks' = Started(c)
    /\ UNCHANGED <<stored, inbox, last, sent, faults>>

(* browserLoginCallback.handle: the code of the login whose state the      *)
(* request carries; anything else, a page of another login too, is an      *)
(* error.  Each channel holds one item and further ones are dropped.       *)
Handle(c) ==
    /\ At(c, "waiting")
    /\ \/ inbox' = [inbox EXCEPT ![c].result = IF @ = Nil THEN c ELSE @]
       \/ inbox' = [inbox EXCEPT ![c].err = TRUE]
    /\ UNCHANGED <<stored, live, cmd, last, sent, marks, faults>>

(* Wait: an answer and an error that are both there are drawn at random.   *)
Receive(c) ==
    /\ At(c, "waiting") /\ inbox[c].result # Nil
    /\ Set(c, [cmd[c] EXCEPT !.at = "exchange", !.code = inbox[c].result])
    /\ inbox' = [inbox EXCEPT ![c] = Empty]
    /\ UNCHANGED <<stored, live, last, sent, marks, faults>>

(* Mutant: no timer, only an error ends the wait.                          *)
GiveUpOnError(c) ==
    /\ At(c, "waiting") /\ inbox[c].err
    /\ End(c, "failed")
    /\ inbox' = [inbox EXCEPT ![c] = Empty]
    /\ UNCHANGED <<stored, live, last, sent, marks, faults>>

(* Wait: the error, or the timeout.                                        *)
GiveUp(c) ==
    /\ At(c, "waiting")
    /\ End(c, "failed")
    /\ inbox' = [inbox EXCEPT ![c] = Empty]
    /\ UNCHANGED <<stored, live, last, sent, marks, faults>>

(* exchangeCLICode: the control plane issues a token for the code if the   *)
(* verifier is the one it was made for; the answer may be lost.            *)
Exchange(c) ==
    LET token == [base |-> cmd[c].base, by |-> c] IN
    /\ At(c, "exchange")
    /\ IF cmd[c].code = c
       THEN /\ live' = live \cup {token}
            /\ \/ Set(c, [cmd[c] EXCEPT !.at = "keep", !.token = token]) /\ UNCHANGED faults
               \/ Fault /\ End(c, "failed")
       ELSE End(c, "failed") /\ UNCHANGED <<live, faults>>
    /\ UNCHANGED <<stored, inbox, last, sent, marks>>

(* Mutant: the entry is under the name of another control plane. *)
KeepElsewhere(c) ==
    /\ At(c, "keep")
    /\ \E b \in Bases : keychain' = [keychain EXCEPT ![b] = cmd[c].token]
    /\ Set(c, [cmd[c] EXCEPT !.at = "write",
               !.conf = [kind |-> "cli", base |-> cmd[c].base, token |-> Nil]])
    /\ UNCHANGED <<config, tmp, live, inbox, last, sent, marks, faults>>

(* storeCLIToken: in the keychain, or in config.json when that fails.      *)
Keep(c) ==
    LET conf(token) == [kind |-> "cli", base |-> cmd[c].base, token |-> token] IN
    /\ At(c, "keep")
    /\ \/ /\ keychain' = [keychain EXCEPT ![cmd[c].base] = cmd[c].token]
          /\ Set(c, [cmd[c] EXCEPT !.at = "write", !.conf = conf(Nil)])
          /\ UNCHANGED faults
       \/ /\ Fault /\ UNCHANGED keychain
          /\ Set(c, [cmd[c] EXCEPT !.at = "write", !.conf = conf(cmd[c].token)])
    /\ UNCHANGED <<config, tmp, live, inbox, last, sent, marks>>

-----------------------------------------------------------------------------
(* The slips if c, which keeps its token in the keychain, fails.           *)
Slips(c) == last.slips \cup {d \in {c} : cmd[c].conf # Nil /\ cmd[c].conf.token = Nil}

(* saveAuthConfig: the temporary file, then the rename.                    *)
Write(c) ==
    /\ At(c, "write")
    /\ tmp' = cmd[c].conf
    /\ Go(c, "rename")
    /\ UNCHANGED <<config, keychain, live, inbox, last, sent, marks, faults>>

Rename(c) ==
    /\ At(c, "rename") /\ tmp # Nil
    /\ config' = tmp /\ tmp' = Nil
    /\ IF c \in Requests THEN Go(c, "send") /\ UNCHANGED last
       ELSE /\ End(c, "done")
            /\ last' = [token |-> [base |-> cmd[c].base, by |-> c], slips |-> {}]
    /\ UNCHANGED <<keychain, live, inbox, sent, marks, faults>>

(* An error of either: the temporary file is left as it is, torn, or       *)
(* removed, or it is not there to rename.  It ends a login; a request goes *)
(* on with its token.                                                      *)
SaveFails(c) ==
    /\ cmd[c].at \in {"write", "rename"}
    /\ IF At(c, "rename") /\ tmp = Nil THEN UNCHANGED faults ELSE Fault
    /\ tmp' \in {tmp} \cup {f \in {Nil, Torn} : At(c, "write")}
    /\ IF c \in Requests THEN Go(c, "send") /\ UNCHANGED last
       ELSE End(c, "failed") /\ last' = [last EXCEPT !.slips = Slips(c)]
    /\ UNCHANGED <<config, keychain, live, inbox, sent, marks>>

-----------------------------------------------------------------------------
(* runLogout: config.json is read once.                                    *)
StartLogout(c) ==
    /\ c \in Logouts /\ At(c, "idle")
    /\ Set(c, [Fresh EXCEPT !.conf = Loaded,
               !.token = IF Loaded = Nil THEN Nil
                         ELSE IF Loaded.kind = "cli" THEN Resolve(Loaded) ELSE Nil,
               !.at = IF Loaded = Nil THEN "remove"
                      ELSE IF Loaded.kind = "cli" THEN "revoke" ELSE "remove"])
    /\ marks' = Started(c)
    /\ UNCHANGED <<stored, live, inbox, last, sent, faults>>

(* revokeCLIToken, at the control plane that --api names or else at the    *)
(* credential's own.  Its failure is ignored; without a token nothing is   *)
(* sent.  A control plane revokes only what it issued.                     *)
Revoke(c) ==
    LET token == Resolve(cmd[c].conf) IN
    /\ At(c, "revoke")
    /\ Go(c, "forget")
    /\ \/ \E b \in Bases :
             /\ token # Nil
             /\ sent' = sent \cup {[token |-> token, to |-> b, named |-> b # cmd[c].conf.base]}
             /\ \/ /\ live' = {t \in live : t # token \/ t.base # b}
                   /\ marks' = marks \cup {m \in {"unrevoked"} : token.base # b}
                   /\ UNCHANGED faults
                \/ Fault /\ marks' = marks \cup {"unrevoked"} /\ UNCHANGED live
       \/ /\ IF token = Nil THEN UNCHANGED faults ELSE Fault
          /\ marks' = marks \cup {m \in {"unrevoked"} : token # Nil}
          /\ UNCHANGED <<live, sent>>
    /\ UNCHANGED <<stored, inbox, last>>

(* The keychain's entry is deleted; an error is ignored.                   *)
Forget(c) ==
    /\ At(c, "forget")
    /\ Go(c, "remove")
    /\ \/ /\ keychain' = IF cmd[c].conf.token # Nil THEN keychain
                         ELSE [keychain EXCEPT ![cmd[c].conf.base] = Nil]
          /\ UNCHANGED faults
       \/ Fault /\ UNCHANGED keychain
    /\ UNCHANGED <<config, tmp, live, inbox, last, sent, marks>>

(* ... and config.json, whatever is in it by now; none is as good.         *)
Remove(c) ==
    /\ At(c, "remove")
    /\ \/ /\ config' = Nil
          /\ last' = [token |-> Nil, slips |-> {}]
          /\ Set(c, [Fresh EXCEPT !.at = "done", !.token = cmd[c].token])
          /\ UNCHANGED faults
       \/ /\ config # Nil /\ Fault
          /\ last' = [last EXCEPT !.slips = Slips(c)]
          /\ End(c, "failed")
          /\ UNCHANGED config
    /\ UNCHANGED <<tmp, keychain, live, inbox, sent, marks>>

-----------------------------------------------------------------------------
(* Mutant: the target is not compared with the credential's origin.        *)
StartRequestAnywhere(c) ==
    /\ c \in Requests /\ At(c, "idle") /\ Loaded # Nil
    /\ \E b \in Bases :
        Set(c, [Fresh EXCEPT !.base = b, !.conf = Loaded, !.token = Resolve(Loaded),
                !.at = IF Resolve(Loaded) = Nil THEN "failed"
                       ELSE IF Loaded.kind = "firebase" THEN "refresh" ELSE "send"])
    /\ marks' = Started(c)
    /\ UNCHANGED <<stored, live, inbox, last, sent, faults>>

(* currentOperatorCredentialsForRequest: a credential of another control   *)
(* plane and a token that cannot be read are refused; a Firebase token is  *)
(* refreshed.                                                              *)
StartRequest(c) ==
    /\ c \in Requests /\ At(c, "idle") /\ Loaded # Nil
    /\ \E b \in Bases :
        Set(c, [Fresh EXCEPT !.base = b, !.conf = Loaded, !.token = Resolve(Loaded),
                !.at = IF Resolve(Loaded) = Nil \/ Loaded.base # b THEN "failed"
                       ELSE IF Loaded.kind = "firebase" THEN "refresh" ELSE "send"])
    /\ marks' = Started(c)
         \cup {m \in {"refresh"} : Loaded.kind = "firebase" /\ \E d \in Cmds : Active(d)}
    /\ UNCHANGED <<stored, live, inbox, last, sent, faults>>

(* refreshFirebaseIDToken: a failure leaves the token as it is.            *)
Refresh(c) ==
    /\ At(c, "refresh")
    /\ Go(c, "reload") \/ Go(c, "send")
    /\ UNCHANGED <<stored, live, inbox, last, sent, marks, faults>>

(* config.json is read again and the refreshed token put into it.          *)
Reload(c) ==
    /\ At(c, "reload")
    /\ IF Loaded = Nil THEN Go(c, "send")
       ELSE Set(c, [cmd[c] EXCEPT !.at = "write",
                    !.conf = [Loaded EXCEPT !.kind = "firebase", !.token = cmd[c].token]])
    /\ UNCHANGED <<stored, live, inbox, last, sent, marks, faults>>

Send(c) ==
    /\ At(c, "send")
    /\ sent' = sent \cup {[token |-> cmd[c].token, to |-> cmd[c].base, named |-> FALSE]}
    /\ End(c, "done")
    /\ UNCHANGED <<stored, live, inbox, last, marks, faults>>

Kill(c) ==
    /\ Active(c) /\ Fault
    /\ End(c, "killed")
    /\ tmp' \in {tmp} \cup {f \in {Torn} : At(c, "write")}
    /\ marks' = marks \cup {"killed"}
    /\ UNCHANGED <<config, keychain, live, inbox, last, sent>>

-----------------------------------------------------------------------------
Step(c) ==
    \/ Receive(c) \/ GiveUp(c) \/ Exchange(c) \/ Keep(c) \/ Write(c) \/ Rename(c) \/ SaveFails(c)
    \/ Revoke(c) \/ Forget(c) \/ Remove(c) \/ Refresh(c) \/ Reload(c) \/ Send(c)

Next ==
    \E c \in Cmds :
        \/ Step(c) \/ Kill(c) \/ StartLogout(c) \/ StartRequest(c)
        \/ c \in Logins /\ (StartLogin(c) \/ PasteToken(c) \/ Handle(c))

(* A command that has started runs on; the operator and the browser may    *)
(* do nothing.                                                             *)
Fairness == \A c \in Cmds : WF_vars(Step(c))

Spec == Init /\ [][Next]_vars /\ Fairness

-----------------------------------------------------------------------------
(* The records have the shape the code gives them; only a token of the CLI *)
(* is left out of config.json.                                             *)
TypeOK ==
    /\ config \in Files /\ tmp \in Files
    /\ keychain \in [Bases -> Tokens \cup {Nil}] /\ live \subseteq Tokens
    /\ config \in Configs => (config.token = Nil => config.kind = "cli")

Quiet(excepted) == marks \cap excepted = {}

(* The session of the last login or logout to succeed, but for slips: the  *)
(* token in the keychain may be a slipped login's, or gone with a slipped  *)
(* logout.                                                                 *)
Session(slips) ==
    IF last.token = Nil THEN config = Nil
    ELSE /\ config \in Configs /\ config.base = last.token.base
         /\ \/ Resolve(config) = last.token
            \/ \E c \in slips :
                  \/ c \in Logins /\ Resolve(config) = [base |-> config.base, by |-> c]
                  \/ c \in Logouts /\ Resolve(config) = Nil

(* The stored login is what the last login or logout to succeed left: the  *)
(* token that config.json leads to is the one that it obtained, or, under  *)
(* the same control plane, that of one which failed later, at config.json, *)
(* with the keychain changed.                                              *)
SessionIsLast ==
    Quiet({"overlap", "killed"}) /\ (\A c \in Cmds : ~Active(c)) => Session(last.slips)

(* When config.json says that the token is in the keychain, it is: also    *)
(* after an error and while a login is replacing another; only a logout    *)
(* that could not remove config.json has left none behind it.              *)
KeychainBacked ==
    Quiet({"overlap", "killed"}) /\ (\A c \in Logouts : ~Active(c)) =>
        (config \in Configs => Resolve(config) # Nil \/ last.slips \cap Logouts # {})

(* After a logout no control plane accepts the token it found, unless the  *)
(* revocation could not be sent or went to another control plane.          *)
LogoutRevokes ==
    Quiet({"overlap", "killed", "unrevoked"}) =>
        \A c \in Logouts : At(c, "done") => cmd[c].token \notin live

(* A stored token is only sent to the control plane that issued it, and    *)
(* "must not travel anywhere else" (auth_cmd.go:661), also while logins and*)
(* logouts are under way.  The exceptions are a logout, which sends it     *)
(* wherever --api says, and a request that refreshes its token meanwhile.  *)
TokenGoesHome == Quiet({"refresh"}) => \A s \in sent : s.token.base = s.to \/ s.named

(* A login exchanges the code of its own approval only, whatever pages of  *)
(* other logins reach its callback.                                        *)
CallbackIsOwn == \A c \in Logins : cmd[c].code \in {Nil, c}

(* A login ends although the browser never answers.                        *)
LoginEnds == \A c \in Logins : At(c, "waiting") ~> ~Active(c)

(* The stored session is that of the last command that ended well:         *)
(* readable, and gone with its logout.                                     *)
SessionHolds == TypeOK /\ SessionIsLast /\ KeychainBacked /\ LogoutRevokes

(* No token and no code crosses to another control plane or login.         *)
OwnTokensOnly == TokenGoesHome /\ CallbackIsOwn
=============================================================================
