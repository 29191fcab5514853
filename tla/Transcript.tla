----------------------------- MODULE Transcript -----------------------------
(***************************************************************************)
(* What the sessions promise of a conversation, and nothing of how: a      *)
(* record of what was said, that only grows at its end, each message once  *)
(* and no answer before its question.  Its beginning may be exchanged for  *)
(* a summary, which covers it; the last Keep messages are not summarised,  *)
(* and what is dropped uncovered are answers left without their question.  *)
(* It may be deleted.                                                      *)
(*                                                                         *)
(* Every change is written to a file, which a restart reads again.  A      *)
(* write may fail without a word: the file then stays behind until the     *)
(* next one succeeds, and only a restart in between loses anything.        *)
(*                                                                         *)
(* The promise is void once the conversation was deleted under a turn, or  *)
(* two summaries of it were made at once: then anything may be on record.  *)
(***************************************************************************)
EXTENDS Naturals, Sequences

CONSTANTS Turns, Keep, None

VARIABLES shown,   \* the record: its messages, what its summary covers, and
                   \* what was said since it was opened (history); or None
          file,    \* the record on file, or None
          behind,  \* the last write of the file failed
          void

transcriptVars == <<shown, file, behind, void>>

Roles == {"user", "assistant"}

TranscriptInit == shown = None /\ file = None /\ behind = FALSE /\ void = FALSE

\* The change reaches the file, or the file stays as it was.
Filed ==
  \/ file' = shown' /\ behind' = FALSE
  \/ file' = file /\ behind' = TRUE

Open ==
  /\ shown = None
  /\ shown' = [msgs |-> <<>>, covered |-> {}, said |-> {}]
  /\ Filed

Say(role, t) ==
  /\ shown # None
  /\ <<role, t>> \notin shown.said
  /\ role = "assistant" => <<"user", t>> \in shown.said
  /\ shown' = [msgs |-> Append(shown.msgs, <<role, t>>), covered |-> shown.covered,
               said |-> shown.said \cup {<<role, t>>}]
  /\ Filed

\* The first n messages are covered; what follows is kept from message m + 1 on.
Summarise(n, m) ==
  /\ n + Keep <= Len(shown.msgs) /\ m \in n .. Len(shown.msgs)
  /\ \A i \in n + 1 .. m : shown.msgs[i][1] # "user"
  /\ shown' = [msgs |-> SubSeq(shown.msgs, m + 1, Len(shown.msgs)),
               covered |-> shown.covered \cup {shown.msgs[i] : i \in 1 .. n},
               said |-> shown.said]
  /\ Filed

Delete ==
  /\ shown # None
  /\ shown' = None
  /\ Filed

\* A restart shows what is on file: the same record, unless the file is behind.
Reload ==
  /\ behind \/ file = shown
  /\ shown' = file /\ file' = file /\ behind' = FALSE

TranscriptNext ==
  \/ /\ ~void /\ ~void'
     /\ \/ Open \/ Delete \/ Reload
        \/ \E role \in Roles, t \in Turns : Say(role, t)
        \/ shown # None /\ \E n \in 1 .. Len(shown.msgs), m \in 1 .. Len(shown.msgs) : Summarise(n, m)
  \/ void'

TranscriptSpec == TranscriptInit /\ [][TranscriptNext]_transcriptVars
=============================================================================
