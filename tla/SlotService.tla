---------------------------- MODULE SlotService ----------------------------
(***************************************************************************)
(* What a caller of run() (src/lib/task-queue.js) may rely on, without the *)
(* list, the roles, the timers and the drain loop: a call is refused or    *)
(* accepted into a budget of "Places" calls, at most "Slots" of the        *)
(* accepted ones execute, each reader gets one answer, and an execution    *)
(* ends only after its reader has been answered.                           *)
(***************************************************************************)
EXTENDS Naturals

CONSTANTS
    Calls,      \* calls that may be made
    Slots,      \* executions at a time
    Places,     \* accepted calls at a time
    Answers,    \* what a reader may be told
    Size(_)     \* number of calls in a set of calls

VARIABLES
    answer,     \* "unasked", "pending" or one of Answers
    executing   \* calls whose producer holds a slot

serviceVars == <<answer, executing>>

Open == {c \in Calls : answer[c] = "pending"}

Init == answer = [c \in Calls |-> "unasked"] /\ executing = {}

Refuse(c) ==
    /\ answer[c] = "unasked"
    /\ \E a \in Answers : answer' = [answer EXCEPT ![c] = a]
    /\ UNCHANGED executing

Accept(c) ==
    /\ answer[c] = "unasked"
    /\ Size(Open \cup executing) < Places
    /\ answer' = [answer EXCEPT ![c] = "pending"]
    /\ UNCHANGED executing

Start(c) ==
    /\ c \in Open \ executing
    /\ Size(executing) < Slots
    /\ executing' = executing \cup {c}
    /\ UNCHANGED answer

Answer(c) ==
    /\ c \in Open
    /\ \E a \in Answers : answer' = [answer EXCEPT ![c] = a]
    /\ UNCHANGED executing

\* Shutting down answers every reader in one step.
AnswerAll ==
    /\ \E a \in Answers :
          answer' = [c \in Calls |-> IF c \in Open THEN a ELSE answer[c]]
    /\ UNCHANGED executing

End(c) ==
    /\ c \in executing \ Open
    /\ executing' = executing \ {c}
    /\ UNCHANGED answer

Next ==
    \/ AnswerAll
    \/ \E c \in Calls : Refuse(c) \/ Accept(c) \/ Start(c) \/ Answer(c) \/ End(c)

Spec == Init /\ [][Next]_serviceVars
=============================================================================
