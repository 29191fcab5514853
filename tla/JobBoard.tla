------------------------------ MODULE JobBoard ------------------------------
(***************************************************************************)
(* What the post-commit queue promises to the turns that leave jobs        *)
(* behind, and nothing of how: a board where each job waits, is in hand,   *)
(* or is gone.  Each side has one pair of hands.  A job may be put back a  *)
(* number of times, and then leaves with one word.  It leaves without      *)
(* having been done only if another of its session and step stands for it, *)
(* or if its side is closed with it in hand.  A job in hand that is told   *)
(* to stop does not leave as done.                                         *)
(***************************************************************************)
EXTENDS Naturals, Sequences

CONSTANTS Ids,        \* the jobs there may be, in the order they are left
          Sessions,   \* whose jobs they are
          Sides,      \* the engines they run on
          MaxTries    \* how often a job is taken up

VARIABLES jobs,    \* the jobs left so far
          place,   \* where each is
          backs,   \* how often it was put back
          words,   \* what was said of it
          told,    \* jobs in hand that were told to stop
          open     \* the sides not closed

boardVars == <<jobs, place, backs, words, told, open>>

Left == 1 .. Len(jobs)
InHand == {j \in Left : place[j] = "in hand"}
Others(j) == {k \in Left \ {j} : jobs[k].session = jobs[j].session /\ jobs[k].step = jobs[j].step}
Stale(j) == \E k \in Others(j) : k > j
PutBackBefore(j) == backs[j] > 0

BoardInit ==
  /\ jobs = <<>>
  /\ place = [j \in Ids |-> "nowhere"]
  /\ backs = [j \in Ids |-> 0]
  /\ words = [j \in Ids |-> <<>>]
  /\ told = {}
  /\ open = Sides

\* A turn leaves its two jobs on one side.
Leave(s, side) ==
  LET j == Len(jobs) + 1
      new(step) == [session |-> s, step |-> step, queue |-> side] IN
    /\ {j, j + 1} \subseteq Ids
    /\ jobs' = jobs \o <<new("describe_image"), new("compact")>>
    /\ place' = [place EXCEPT ![j] = "waiting", ![j + 1] = "waiting"]
    /\ UNCHANGED <<backs, words, told, open>>

\* A job is taken up: a stale one only if it was taken up before.
TakeUp(j) ==
  /\ place[j] = "waiting"
  /\ jobs[j].queue \in open
  /\ \A k \in InHand : jobs[k].queue # jobs[j].queue
  /\ Stale(j) => PutBackBefore(j)
  /\ place' = [place EXCEPT ![j] = "in hand"]
  /\ UNCHANGED <<jobs, backs, words, told, open>>

PutBack(j) ==
  /\ place[j] = "in hand"
  /\ backs[j] + 1 < MaxTries
  /\ backs' = [backs EXCEPT ![j] = @ + 1]
  /\ place' = [place EXCEPT ![j] = "waiting"]
  /\ told' = told \ {j}
  /\ UNCHANGED <<jobs, words, open>>

Finish(j, word) ==
  /\ place[j] = "in hand"
  /\ word = "ok" => j \notin told
  /\ word = "preempted" => backs[j] + 1 = MaxTries
  /\ place' = [place EXCEPT ![j] = "gone"]
  /\ words' = [words EXCEPT ![j] = <<word>>]
  /\ told' = told \ {j}
  /\ UNCHANGED <<jobs, backs, open>>

\* A job that waits is given up: it is stale, or an older one was put back.
Discard(j) ==
  /\ place[j] = "waiting"
  /\ Stale(j) \/ \E k \in Others(j) : PutBackBefore(k)
  /\ place' = [place EXCEPT ![j] = "gone"]
  /\ words' \in {words, [words EXCEPT ![j] = <<"superseded">>]}
  /\ UNCHANGED <<jobs, backs, told, open>>

\* A turn of a session tells some of its jobs in hand to stop.
Tell(s) ==
  /\ \E some \in SUBSET {j \in InHand : jobs[j].session = s} : told' = told \cup some
  /\ UNCHANGED <<jobs, place, backs, words, open>>

\* A side is closed, and what is in hand there is lost.
Close(side) ==
  LET lost == {j \in InHand : jobs[j].queue = side} IN
    /\ side \in open
    /\ open' = open \ {side}
    /\ place' = [j \in Ids |-> IF j \in lost THEN "gone" ELSE place[j]]
    /\ told' = told \ lost
    /\ UNCHANGED <<jobs, backs, words>>

BoardNext ==
  \/ \E s \in Sessions : Tell(s) \/ \E side \in Sides : Leave(s, side)
  \/ \E j \in Left : TakeUp(j) \/ PutBack(j) \/ Discard(j) \/ \E w \in {"ok", "failed", "preempted"} : Finish(j, w)
  \/ \E side \in Sides : Close(side)

BoardSpec == BoardInit /\ [][BoardNext]_boardVars
=============================================================================
