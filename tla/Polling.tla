------------------------------- MODULE Polling -------------------------------
(***************************************************************************)
(* Waiting for the asynchronous queries of one submitted batch:            *)
(* _poll_batch runs `rule-usage` on its own last output until no query is  *)
(* pending or the deadline has passed (collection_engine.py), and          *)
(* WorkloaderRunner.run repeats a command that met a transient failure     *)
(* (workloader/runner.py).                                                 *)
(*                                                                         *)
(*  - The clock counts minutes since _poll_batch began. A sleep moves it   *)
(*    on at once, a command minute by minute.                              *)
(*  - The PCE finishes queries at any time and expires those it has not    *)
(*    finished after Expiry minutes. A command reads the states of its     *)
(*    input's queries one after the other, and reports all or some.        *)
(***************************************************************************)
EXTENDS Integers, FiniteSets

CONSTANTS
  Queries,         \* the rules of the batch
  InitialDelay, Interval, Deadline,  \* settings.query_*_minutes
  RateDelay, RateMax,                \* settings.rate_limit_*
  TransportDelay, TransportMax,      \* settings.transport_*
  MaxCommand,      \* bound on the minutes one command takes
  Expiry,          \* the PCE's 24 hours
  Horizon          \* bound on the clock, which stops there: later than OvershootBounded allows

ASSUME DelaysAssumption ==
  /\ InitialDelay \in Nat /\ Interval \in Nat /\ Deadline \in Nat \ {0}
  /\ RateDelay \in Nat \ {0} /\ RateMax \in Nat \ {0}
  /\ TransportDelay \in Nat \ {0} /\ TransportMax \in Nat \ {0}
  /\ MaxCommand \in Nat /\ Expiry \in Nat /\ Horizon \in Nat

Finished == {"completed", "unknown", "expired"}
States == {"pending"} \cup Finished

VARIABLES
  noWait,           \* --no-wait
  queries,          \* what the PCE knows
  ended,            \* history: when the PCE finished a query, or Never
  file,             \* the rows of the last output, or of the submission
  answers,          \* what the command has read so far
  pc, clock,
  wake,             \* the end of the sleep, then the moment the command began
  rate, transport,  \* transient_retries, transport_retries of the command
  tries             \* history: how often the command was executed

pollVars == <<noWait, queries, ended, file, answers, pc, clock, wake, rate, transport, tries>>
pce == <<queries, ended>>

Never == -1
Later(minutes) == IF clock + minutes < Horizon THEN clock + minutes ELSE Horizon

PollTypeOK ==
  /\ noWait \in BOOLEAN
  /\ queries \in [Queries -> States] /\ ended \in [Queries -> Nat \cup {Never}]
  /\ \A rows \in {file, answers} :
       DOMAIN rows \subseteq Queries /\ \A q \in DOMAIN rows : rows[q] \in States
  /\ pc \in {"sleeping", "running", "done", "failed"}
  /\ clock \in Nat /\ wake \in Nat
  /\ rate \in 0..RateMax /\ transport \in 0..TransportMax /\ tries \in 0..(1 + RateMax + TransportMax)

PollInit ==
  /\ noWait \in BOOLEAN
  /\ queries = [q \in Queries |-> "pending"] /\ ended = [q \in Queries |-> Never]
  /\ file = queries /\ answers = <<>>
  /\ pc = "sleeping" /\ clock = 0 /\ wake = IF noWait THEN 0 ELSE InitialDelay
  /\ rate = 0 /\ transport = 0 /\ tries = 0

-----------------------------------------------------------------------------
(* The PCE. *)

Finish(q, state) ==
  /\ queries[q] = "pending"
  /\ state = "expired" => clock >= Expiry
  /\ queries' = [queries EXCEPT ![q] = state]
  /\ ended' = [ended EXCEPT ![q] = clock]
  /\ UNCHANGED <<noWait, file, answers, pc, clock, wake, rate, transport, tries>>

-----------------------------------------------------------------------------
(* The collector. *)

\* A sleep ends: the command starts, or starts again.
Wake ==
  /\ pc = "sleeping"
  /\ pc' = "running" /\ clock' = wake /\ answers' = <<>>
  /\ UNCHANGED <<noWait, pce, file, wake, rate, transport, tries>>

\* The command takes its time ...
Minute ==
  /\ pc = "running" /\ clock < wake + MaxCommand /\ clock < Horizon
  /\ clock' = clock + 1
  /\ UNCHANGED <<noWait, pce, file, answers, pc, wake, rate, transport, tries>>

\* ... and reads the state of one query after the other.
Look(q) ==
  /\ pc = "running" /\ q \in DOMAIN file \ DOMAIN answers
  /\ answers' = [x \in DOMAIN answers \cup {q} |-> IF x = q THEN queries[q] ELSE answers[x]]
  /\ UNCHANGED <<noWait, pce, file, pc, clock, wake, rate, transport, tries>>

\* It ends.
Execute == pc = "running" /\ UNCHANGED <<noWait, pce, answers, clock>>

Pause(minutes) == pc' = "sleeping" /\ wake' = Later(minutes)

\* Mutants: a timed-out batch is polled again for ever; one more poll after the
\* deadline; the deadline only counts commands that began after it.
ExpectsMore(output, elapsed) == \E q \in DOMAIN output : output[q] = "pending"
ExpectsOneMore(output, elapsed) ==
  /\ \E q \in DOMAIN output : output[q] = "pending"
  /\ ~noWait /\ elapsed <= Deadline
ExpectsLess(output, elapsed) ==
  /\ \E q \in DOMAIN output : output[q] = "pending"
  /\ ~noWait /\ elapsed + Interval < Deadline

\* Polling goes on while a row is pending, unless told not to wait or too late.
Expects(output, elapsed) ==
  /\ \E q \in DOMAIN output : output[q] = "pending"
  /\ ~noWait /\ elapsed < Deadline

\* The command succeeds: its output is the next input, and the deadline is looked at.
Answer ==
  /\ Execute /\ file' = answers
  /\ IF Expects(answers, clock)
     THEN Pause(Interval) /\ rate' = 0 /\ transport' = 0 /\ tries' = 0
     ELSE pc' = "done" /\ tries' = tries + 1 /\ UNCHANGED <<wake, rate, transport>>

\* A transient HTTP status, or a transport failure of the preflight: the same
\* command is repeated, so often for each kind.
Retry ==
  /\ Execute
  /\ \/ rate < RateMax /\ rate' = rate + 1 /\ Pause(RateDelay) /\ UNCHANGED transport
     \/ /\ transport < TransportMax /\ transport' = transport + 1
        /\ Pause(TransportDelay)
        /\ UNCHANGED rate
  /\ tries' = tries + 1
  /\ UNCHANGED file

\* Any other failure, or a transient one too many, ends the run.
GiveUp ==
  /\ Execute
  /\ pc' = "failed" /\ tries' = tries + 1
  /\ UNCHANGED <<file, wake, rate, transport>>

Collector == Wake \/ Minute \/ (\E q \in Queries : Look(q)) \/ Answer \/ Retry \/ GiveUp

PollNext ==
  \/ \E q \in Queries, state \in Finished : Finish(q, state)
  \/ Collector

\* The collector is one thread that sleeps and runs commands: it always goes on.
\* Nothing is assumed of the PCE, which may never finish a query.
PollSpec == PollInit /\ [][PollNext]_pollVars /\ WF_pollVars(Collector)

-----------------------------------------------------------------------------
(* Properties. *)

\* The longest a command with its retries can take.
LongestCommand ==
  (1 + RateMax + TransportMax) * MaxCommand + RateMax * RateDelay + TransportMax * TransportDelay

\* The deadline is looked at between commands only: polling overshoots it by one
\* interval and one command with all its retries at most. (With the defaults, 1380
\* + 10 + 135 minutes and the commands' own time: more than the PCE's 24 hours.)
OvershootBounded ==
  LET latest == IF InitialDelay > Deadline - 1 + Interval THEN InitialDelay
                ELSE Deadline - 1 + Interval
  IN clock <= latest + LongestCommand

\* A query is returned as pending only after the deadline, and only if the PCE had not
\* finished it when the last command began, so much of a command before the deadline:
\* the command may read a state just before it changes, and end after the deadline.
FinishedInTime ==
  pc = "done" /\ ~noWait =>
    \A q \in DOMAIN file : file[q] = "pending" =>
      clock >= Deadline /\ (ended[q] = Never \/ ended[q] >= Deadline - MaxCommand)

\* The loop ends although the PCE may never answer and commands may fail.
PollEnds == <>(pc \in {"done", "failed"})

=============================================================================
