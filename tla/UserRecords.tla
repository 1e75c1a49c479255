---------------------------- MODULE UserRecords ----------------------------
(***************************************************************************)
(* What the API promises about one user's cards: a single copy that each   *)
(* successful request sees as it is when the answer is sent, and that no   *)
(* other request can change in between.  The state of the cards is the set *)
(* of requests whose upgrade they contain.                                 *)
(***************************************************************************)
CONSTANTS
    Client,     \* the requests that read or change the cards
    Writer      \* those of them that upgrade a card

VARIABLES
    rows,       \* the upgrades in the stored cards
    answer,     \* answer[c] \in {"none", "ok", "rejected", "failed"}
    shown       \* the cards that the answer of c is based on

recordVars == <<rows, answer, shown>>

RecordInit ==
    /\ rows = {}
    /\ answer = [c \in Client |-> "none"]
    /\ shown = [c \in Client |-> {}]

\* An upgrade takes effect, once, before the request is answered.
Write(c) ==
    /\ c \in Writer \ rows
    /\ answer[c] = "none"
    /\ rows' = rows \cup {c}
    /\ UNCHANGED <<answer, shown>>

\* Success: the upgrade is in the cards, and the answer shows the cards as they are.
AnswerOk(c) ==
    /\ answer[c] = "none"
    /\ c \in Writer => c \in rows
    /\ answer' = [answer EXCEPT ![c] = "ok"]
    /\ shown' = [shown EXCEPT ![c] = rows]
    /\ UNCHANGED rows

\* Refusal: nothing has been or will be changed, a retry is safe.
AnswerRejected(c) ==
    /\ answer[c] = "none"
    /\ c \notin rows
    /\ answer' = [answer EXCEPT ![c] = "rejected"]
    /\ UNCHANGED <<rows, shown>>

\* "commit failed", "marshal error": the upgrade may be stored or not.
AnswerFailed(c) ==
    /\ answer[c] = "none"
    /\ answer' = [answer EXCEPT ![c] = "failed"]
    /\ UNCHANGED <<rows, shown>>

RecordNext ==
    \E c \in Client :
        Write(c) \/ AnswerOk(c) \/ AnswerRejected(c) \/ AnswerFailed(c)

RecordSpec == RecordInit /\ [][RecordNext]_recordVars
=============================================================================
