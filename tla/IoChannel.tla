------------------------------ MODULE IoChannel ------------------------------
(***************************************************************************)
(* What an I/O queue pair promises its caller, without rings, doorbells,   *)
(* phase tags or memory.  Commands are numbered in the order in which they *)
(* are handed to the controller.  The controller executes each of them at  *)
(* most once and in any order; the answers are consumed in the order in    *)
(* which the controller gave them, one or several at a time.               *)
(***************************************************************************)
EXTENDS Integers, Sequences

VARIABLES
  handed,    \* number of commands handed to the controller
  answers,   \* the controller's answers so far, in order: [cmd, ok]
  taken,     \* number of answers the caller has consumed
  ret        \* what the last completion call told the caller

channelVars == <<handed, answers, taken, ret>>

Init ==
  /\ handed = 0
  /\ answers = <<>>
  /\ taken = 0
  /\ ret = "none"

Hand ==
  /\ handed' = handed + 1
  /\ UNCHANGED <<answers, taken, ret>>

\* The controller answers a command it was handed and has not answered.
Answer ==
  \E cmd \in 0..(handed - 1), ok \in BOOLEAN :
    /\ \A i \in DOMAIN answers : answers[i].cmd # cmd
    /\ answers' = Append(answers, [cmd |-> cmd, ok |-> ok])
    /\ UNCHANGED <<handed, taken, ret>>

\* A completion call consumes the next answers and reports on the last of
\* them: a failure is never reported for a command that succeeded.
Take ==
  \E upto \in (taken + 1)..Len(answers) :
    /\ taken' = upto
    /\ ret' \in IF answers[upto].ok THEN {"success"} ELSE {"success", "failed"}
    /\ UNCHANGED <<handed, answers>>

\* A poll finds nothing, and only when there is nothing to find.
Miss ==
  /\ taken = Len(answers)
  /\ ret' = "none"
  /\ UNCHANGED <<handed, answers, taken>>

Next == Hand \/ Answer \/ Take \/ Miss

Spec == Init /\ [][Next]_channelVars
==============================================================================
