------------------------------- MODULE SignIns -------------------------------
(***************************************************************************)
(* One employee's sign-ins (routes/auth.ts): a sign-in is a family of      *)
(* refresh keys, of which the newest is unused; a refresh uses a key up    *)
(* and makes the next.  The consume and the reads of one refresh run side  *)
(* by side (Promise.all), so another refresh may fall between them.        *)
(*                                                                         *)
(* Abstracted: passwords, 2-step codes, the count of wrong attempts,       *)
(* access tokens, roles and permissions, expiry after the key's lifetime.  *)
(***************************************************************************)
EXTENDS Handlers

CONSTANTS MaxKeys     \* bound: AuthSession rows
ASSUME SignInsAssumption == MaxKeys \in Nat \ {0}

VARIABLES
    key,           \* AuthSession rows, by creation
    recent,        \* keys whose row was written in the last 30 seconds
    admitted,      \* the account is ACTIVE and its last day not over
    quarrels       \* history: keys whose family was revoked within 30 s of their first use

signins == <<key, recent, admitted, quarrels>>

Keys == DOMAIN key
Families == {key[k].family : k \in Keys}
NewFamily == Cardinality(Families) + 1
Key(family, parent, grace) ==
    [family |-> family, consumed |-> FALSE, revoked |-> FALSE, kept |-> TRUE, parent |-> parent,
     grace |-> grace]
Usable(k) == key[k].kept /\ ~key[k].consumed /\ ~key[k].revoked

SignInsTypeOK ==
    /\ Len(key) <= MaxKeys
    /\ \A k \in Keys : key[k] \in [family : 1..MaxKeys, consumed : BOOLEAN, revoked : BOOLEAN,
                                   kept : BOOLEAN, parent : 0..MaxKeys, grace : BOOLEAN]
    /\ recent \subseteq Keys /\ quarrels \subseteq Keys /\ admitted \in BOOLEAN

\* The employee is signed in on one device.
SignInsInit ==
    /\ key = <<Key(1, 0, FALSE)>>
    /\ recent = {} /\ admitted = TRUE /\ quarrels = {}

\* What a handler has still to do with key k; a refresh knows whether it won the key, what
\* it saw of it and whether the account may go on.
KeyWork(op, k, todo, won, saw, grant) ==
    [op |-> op, key |-> k, todo |-> todo, won |-> won, saw |-> saw, grant |-> grant]
KeyJob(op, k) == KeyWork(op, k, {"consume", "look"}, FALSE, {}, FALSE)

\* The session rows that are not revoked yet and belong in S.
Revoked(S) == [k \in Keys |-> IF k \in S THEN [key[k] EXCEPT !.revoked = TRUE] ELSE key[k]]
Unrevoked == {k \in Keys : ~key[k].revoked}
Standing == UNCHANGED <<recent, admitted, quarrels>>

-----------------------------------------------------------------------------
(* Signing in and out.                                                      *)

PostLogin == admitted /\ Len(key) < MaxKeys
login(c) ==
    /\ PostLogin
    /\ key' = Append(key, Key(NewFamily, 0, FALSE))
    /\ Serve(c) /\ Standing

PostLogout(k) == key[k].kept /\ ~key[k].revoked
logout(c, k) ==
    /\ PostLogout(k)
    /\ key' = Revoked({k}) /\ recent' = recent \cup {k}
    /\ Serve(c)
    /\ UNCHANGED <<admitted, quarrels>>

\* change-password revokes every key, then signs this device in anew.
PostChangePassword == admitted /\ Len(key) < MaxKeys
changePassword(c) ==
    /\ PostChangePassword
    /\ key' = Revoked(Unrevoked) /\ recent' = recent \cup Unrevoked
    /\ Begin(c, KeyJob("again", 1))
    /\ UNCHANGED <<admitted, quarrels>>

signInAgain(c) ==
    /\ call[c].op = "again" /\ Len(key) < MaxKeys
    /\ key' = Append(key, Key(NewFamily, 0, FALSE))
    /\ Finish(c) /\ Standing

\* sign-out-others reads which family this device's key is of, then revokes the rest.
activeFamilies == {key[k].family : k \in {k \in Keys : Usable(k)}}
currentFamily(k) == key[k].family

PostSignOutOthers(k) == key[k].kept /\ Cardinality(activeFamilies) > 1
signOutOthers(c, k) ==
    /\ PostSignOutOthers(k)
    /\ Begin(c, KeyJob("others", k))
    /\ UNCHANGED signins

signOutOthersTx(c) ==
    LET others == {k \in Unrevoked : key[k].family # currentFamily(call[c].key)} IN
    /\ call[c].op = "others"
    /\ key' = Revoked(others) /\ recent' = recent \cup others
    /\ Finish(c)
    /\ UNCHANGED <<admitted, quarrels>>

\* HR's changes that end the sign-ins ...
EndSignIns(c) ==
    /\ key' = Revoked(Unrevoked) /\ recent' = recent \cup Unrevoked
    /\ Serve(c)
    /\ UNCHANGED quarrels

resetPassword(c) == EndSignIns(c) /\ UNCHANGED admitted
deleteOverride(c) == EndSignIns(c) /\ UNCHANGED admitted

\* ... a permission that is given is picked up with the next key, one that is taken is not,
putOverride(c, granted) ==
    IF granted THEN Serve(c) /\ UNCHANGED signins ELSE EndSignIns(c) /\ UNCHANGED admitted

\* ... and a status or the offboarding, which also decide whether the account is admitted.
setStatus(c, active) == EndSignIns(c) /\ admitted' = active

-----------------------------------------------------------------------------
(* POST /auth/refresh.                                                      *)

\* A client sends a key it still holds; tabs of one browser may send the same one.
refresh(c, k) ==
    /\ Begin(c, KeyJob("refresh", k))
    /\ UNCHANGED signins

\* One conditional statement uses the key up; a row that is gone matches nothing.
Unused_Any(k) == key[k].kept
Unused(k) == Usable(k)

consume(c) ==
    LET job == call[c]
        k == job.key IN
    /\ job.op = "refresh" /\ "consume" \in job.todo
    /\ IF Unused(k)
       THEN key' = [key EXCEPT ![k].consumed = TRUE] /\ recent' = recent \cup {k}
       ELSE UNCHANGED <<key, recent>>
    /\ Continue(c, KeyWork("refresh", k, job.todo \ {"consume"}, Unused(k), job.saw, job.grant))
    /\ UNCHANGED <<admitted, quarrels>>

\* The reads beside it: what they saw of the key, and whether the account may go on.
look(c) ==
    LET job == call[c]
        k == job.key
        saw == {x \in {"KNOWN", "CONSUMED", "REVOKED"} :
                  CASE x = "KNOWN" -> key[k].kept
                    [] x = "CONSUMED" -> key[k].consumed
                    [] x = "REVOKED" -> key[k].revoked} IN
    /\ job.op = "refresh" /\ "look" \in job.todo
    /\ Continue(c, KeyWork("refresh", k, job.todo \ {"look"}, job.won, saw, admitted))
    /\ UNCHANGED signins

Answering(c) == call[c].op = "refresh" /\ call[c].todo = {}

\* A used key is forgiven within 30 seconds, if the read beside the consume saw it used.
justUsed(c) == "CONSUMED" \in call[c].saw /\ call[c].key \in recent
Forgiven(c) == ~call[c].won /\ "REVOKED" \notin call[c].saw /\ justUsed(c)

refuse(c) ==
    /\ Answering(c)
    /\ \/ "KNOWN" \notin call[c].saw
       \/ ~call[c].won /\ "REVOKED" \in call[c].saw
       \/ (call[c].won \/ Forgiven(c)) /\ ~call[c].grant
    /\ Finish(c)
    /\ UNCHANGED signins

revokeFamily(c) ==
    LET k == call[c].key
        family == {j \in Keys : key[j].family = key[k].family /\ key[j].kept} IN
    /\ Answering(c)
    /\ "KNOWN" \in call[c].saw /\ "REVOKED" \notin call[c].saw
    /\ ~call[c].won /\ ~justUsed(c)
    /\ key' = Revoked(family)
    /\ quarrels' = IF key[k].consumed /\ k \in recent /\ ~key[k].revoked
                   THEN quarrels \cup {k} ELSE quarrels
    /\ recent' = recent \cup family
    /\ Finish(c)
    /\ UNCHANGED admitted

nextKey(c) ==
    /\ Answering(c) /\ Len(key) < MaxKeys
    /\ "KNOWN" \in call[c].saw /\ (call[c].won \/ Forgiven(c)) /\ call[c].grant
    /\ key' = Append(key, Key(key[call[c].key].family, call[c].key, ~call[c].won))
    /\ Finish(c) /\ Standing

-----------------------------------------------------------------------------
\* Half a minute passes; handlers are faster than that.
halfMinute ==
    /\ AtRest /\ recent # {}
    /\ recent' = {}
    /\ UNCHANGED <<running, key, admitted, quarrels>>

\* The clean-up job drops used and revoked rows after two weeks.
expiredSessionCleanupJob ==
    LET old == {k \in Keys \ recent : key[k].kept /\ (key[k].consumed \/ key[k].revoked)} IN
    /\ AtRest /\ old # {}
    /\ key' = [k \in Keys |-> IF k \in old THEN [key[k] EXCEPT !.kept = FALSE] ELSE key[k]]
    /\ UNCHANGED <<running, recent, admitted, quarrels>>

KeyRequests(c) ==
    \/ login(c) \/ changePassword(c)
    \/ \E k \in Keys : logout(c, k) \/ signOutOthers(c, k) \/ refresh(c, k)
    \/ resetPassword(c) \/ deleteOverride(c)
    \/ \E yes \in BOOLEAN : putOverride(c, yes) \/ setStatus(c, yes)

KeyCommits(c) ==
    \/ signInAgain(c) \/ signOutOthersTx(c)
    \/ consume(c) \/ look(c) \/ refuse(c) \/ revokeFamily(c) \/ nextKey(c)

KeysAround == halfMinute \/ expiredSessionCleanupJob

-----------------------------------------------------------------------------
(* Properties.                                                              *)

\* Whatever refreshes, sign-outs and clean-ups overlap, a key makes one next key; only
\* the forgiveness of a repeat within half a minute adds to it.
KeyUsedOnce ==
    \A k \in Keys : Cardinality({j \in Keys : key[j].parent = k /\ ~key[j].grace}) <= 1

\* "Two tabs ... refreshing at the same moment send the same key": the second is given a
\* key of its own and the sign-in lives on (auth.ts:498-503).
TabsStaySignedIn == quarrels = {}
=============================================================================
