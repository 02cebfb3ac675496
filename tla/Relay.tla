------------------------------- MODULE Relay -------------------------------
(***************************************************************************)
(* What the write path promises, without queue, writer, batches, retries   *)
(* or shutdown.  Every row goes one way through its phases; it may enter   *)
(* the table only while it is being written, and may be announced only     *)
(* then, once, and only if the table has it.  Rows may be refused, stay    *)
(* buffered for ever, and be settled without having been stored.           *)
(***************************************************************************)
EXTENDS Sequences, Functions

CONSTANT Records

VARIABLES
  phase,      \* of every row
  stored,     \* the rows in the table
  published   \* the rows announced, in order

relayVars == <<phase, stored, published>>

Phases == {"new", "refused", "buffered", "writing", "settled"}
In(p)  == {r \in Records : phase[r] = p}

Init == phase = [r \in Records |-> "new"] /\ stored = {} /\ published = <<>>

Move(S, p) == phase' = [r \in Records |-> IF r \in S THEN p ELSE phase[r]]

\* a row is offered: it is buffered or refused for good
Offer(r) ==
  /\ r \in In("new")
  /\ Move({r}, "buffered") \/ Move({r}, "refused")
  /\ UNCHANGED <<stored, published>>

\* the batch S leaves the buffer
Take(S) == S # {} /\ S \subseteq In("buffered") /\ Move(S, "writing") /\ UNCHANGED <<stored, published>>

\* an attempt to write S: it reaches the table or does not, and S may be settled
Write(S, ok, last) ==
  /\ S # {} /\ S \subseteq In("writing")
  /\ stored' = IF ok THEN stored \cup S ELSE stored
  /\ Move(IF last THEN S ELSE {}, "settled")
  /\ UNCHANGED published

\* a row of the table is announced; with its last row the batch S is settled
Announce(r, S) ==
  /\ r \in In("writing") \cap stored /\ r \notin Range(published)
  /\ S \subseteq In("writing") \cap stored /\ Move(S, "settled")
  /\ published' = Append(published, r)
  /\ UNCHANGED stored

Next ==
  \/ \E r \in Records : Offer(r)
  \/ \E S \in SUBSET Records : Take(S)
  \/ \E S \in SUBSET Records, ok, last \in BOOLEAN : Write(S, ok, last)
  \/ \E r \in Records, S \in SUBSET Records : Announce(r, S)

Spec == Init /\ [][Next]_relayVars
=============================================================================
