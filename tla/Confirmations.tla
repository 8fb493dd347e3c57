---------------------------- MODULE Confirmations ----------------------------
(***************************************************************************)
(* The two-step confirmation of the writes that the quick chat may do for  *)
(* its user (operator/confirmation.py, operator/writes.py): a first call   *)
(* of a tool issues a preview, a second one consumes it if the user's      *)
(* current message holds a word of confirmation.  The calls are the        *)
(* language model's: any tool, any parameters, any token, at any time.     *)
(*                                                                         *)
(* A write is an action with its parameters; the table of previews belongs *)
(* to the process.  Each call holds _LOCK and is one step.                 *)
(***************************************************************************)
EXTENDS Naturals, Sequences

CONSTANTS
    Sessions,
    Writes,              \* an action with its parameters
    TOKEN_TTL_SECONDS,   \* life of a preview
    MaxClock, MaxPreviews, MaxMessages  \* bounds

ASSUME ConfirmationsAssumption ==
    /\ TOKEN_TTL_SECONDS \in Nat \ {0}
    /\ {MaxClock, MaxPreviews, MaxMessages} \subseteq Nat

VARIABLES
    clock,     \* time.monotonic
    message,   \* the user's current message: its number, whether it confirms
    issued,    \* every preview ever issued; its token is its place here
    pending,   \* _PENDING: tokens of previews that can still be confirmed
    granted    \* the writes that were let through, in their order

confirmVars == <<clock, message, issued, pending, granted>>

NoMessage == [no |-> 0, confirms |-> FALSE]

ConfirmInit ==
    /\ clock = 0
    /\ message = [s \in Sessions |-> NoMessage]
    /\ issued = << >>
    /\ pending = {}
    /\ granted = << >>

Tick ==
    /\ clock < MaxClock
    /\ clock' = clock + 1
    /\ UNCHANGED <<message, issued, pending, granted>>

\* A run of the quick agent begins; its tools are made for this message.
Say(s) ==
    /\ message[s].no < MaxMessages
    /\ \E confirms \in BOOLEAN :
          message' = [message EXCEPT ![s] = [no |-> @.no + 1, confirms |-> confirms]]
    /\ UNCHANGED <<clock, issued, pending, granted>>

\* Mutant of Fresh: previews do not age.
FreshForEver == pending

\* What _prune leaves; every call begins with it.
Fresh == {t \in pending : clock < issued[t].at + TOKEN_TTL_SECONDS}

\* confirm = false: issue_confirmation.
Preview(s, w) ==
    /\ message[s].no > 0
    /\ Len(issued) < MaxPreviews
    /\ issued' = Append(issued, [session |-> s, write |-> w, at |-> clock, message |-> message[s].no])
    /\ pending' = Fresh \cup {Len(issued) + 1}
    /\ UNCHANGED <<clock, message, granted>>

IsFor(t, s, w) == issued[t].session = s /\ issued[t].write = w

Newest(S) == {t \in S : \A u \in S : issued[u].at <= issued[t].at}

\* Mutant of Found: a token stands for its preview, whatever it was issued for.
FoundByToken(s, w, token) ==
    IF token = 0 THEN Newest({t \in Fresh : IsFor(t, s, w)}) ELSE Fresh \cap {token}

\* _find_pending and the comparisons after it; token 0 is an omitted one, for which
\* the newest preview of the session and the write is taken.
Found(s, w, token) ==
    IF token = 0 THEN Newest({t \in Fresh : IsFor(t, s, w)})
    ELSE {t \in Fresh \cap {token} : IsFor(t, s, w)}

\* confirm = true and everything agrees: the preview is used up, the write let through.
Grant(s, w, token) ==
    /\ message[s].confirms
    /\ \E t \in Found(s, w, token) :
          /\ pending' = Fresh \ {t}
          /\ granted' = Append(granted, [token |-> t, session |-> s, write |-> w, at |-> clock,
                                         message |-> message[s]])
    /\ UNCHANGED <<clock, message, issued>>

\* confirm = true in vain: a mismatch, an expired preview, no word of confirmation.
Refuse(s, w, token) ==
    /\ message[s].no > 0
    /\ ~message[s].confirms \/ Found(s, w, token) = {}
    /\ pending' = Fresh
    /\ UNCHANGED <<clock, message, issued, granted>>

\* The table is lost with the process, and so are the runs of the agent.
Forget ==
    /\ pending' = {}
    /\ message' = [s \in Sessions |-> NoMessage]
    /\ UNCHANGED <<clock, issued, granted>>

Shown == 0 .. MaxPreviews

Call(s, w) == Preview(s, w) \/ \E token \in Shown : Grant(s, w, token) \/ Refuse(s, w, token)

ConfirmNext ==
    \/ Tick
    \/ \E s \in Sessions : Say(s) \/ \E w \in Writes : Call(s, w)
    \/ Forget

ConfirmSpec == ConfirmInit /\ [][ConfirmNext]_confirmVars

-----------------------------------------------------------------------------

(***************************************************************************)
(* A write is let through at most once per preview, for the session, the   *)
(* action and the parameters that were previewed, before the preview       *)
(* expires, and while the user's message holds a word of confirmation,     *)
(* whichever tokens the model shows or omits and however many previews of  *)
(* however many sessions are open.                                         *)
(***************************************************************************)
Covered(g) ==
    /\ g.token \in DOMAIN issued
    /\ IsFor(g.token, g.session, g.write)
    /\ g.at < issued[g.token].at + TOKEN_TTL_SECONDS
    /\ g.message.confirms

ConfirmedOnce ==
    \A i \in DOMAIN granted :
        /\ Covered(granted[i])
        /\ \A j \in DOMAIN granted : granted[i].token = granted[j].token => i = j

(***************************************************************************)
(* "First a preview; only when the user has confirmed, the second call"    *)
(* (the tools' own instruction, openspec quick-mode-operator): the message *)
(* that confirms comes after the one that was answered with the preview.   *)
(* The code does not compare the two: a request that holds one of the      *)
(* words ("please execute ...") is previewed and let through in one turn.  *)
(***************************************************************************)
ConfirmedLater ==
    \A i \in DOMAIN granted :
        issued[granted[i].token].message < granted[i].message.no
=============================================================================
