----------------------------- MODULE MergeE164s -----------------------------
(***************************************************************************)
(* enclave_run: the numbers that a client sent as previous and as new ones *)
(* become one array.  Both are in the workspace of the client, where the   *)
(* decoder of the request put them in the order of the message.  All reads *)
(* happen for every index, so as not to show the lengths.                  *)
(*                                                                         *)
(* A field is where it starts in the workspace and how many numbers it     *)
(* has; NULL if it was not in the message.  A field that was in it and is  *)
(* empty has the address where the next allocation begins.                 *)
(***************************************************************************)
EXTENDS Integers, Sequences, Job

CONSTANTS
    NULL,
    WORKSPACE_SIZE,     \* bound: numbers that fit in a client's workspace
    HEADER_SIZE         \* how many of them the heap and the message take up

(* pbtools_decoder_read_bytes: a field, in the workspace after the message. *)
E164Fields == {f \in [start : HEADER_SIZE .. WORKSPACE_SIZE, size : 0 .. WORKSPACE_SIZE] :
                    f.start + f.size <= WORKSPACE_SIZE}

ASSUME MergeAssumption ==
    WORKSPACE_SIZE \in Nat /\ HEADER_SIZE \in Nat /\ NULL \notin E164Fields

field_size(field) == IF field = NULL THEN 0 ELSE field.size

(* Mutant: previous numbers are taken to come first. *)
operands_in_order(prev, new) ==
    IF prev = NULL THEN [a_size |-> 0, a |-> new, b |-> new]
    ELSE IF new = NULL THEN [a_size |-> 0, a |-> prev, b |-> prev]
    ELSE [a_size |-> prev.size, a |-> prev, b |-> new]
(* a_e164s_size, a_e164s and b_e164s: the operand that is first in the      *)
(* workspace, or the only one there is.                                     *)
operands(prev, new) ==
    CASE prev = NULL -> [a_size |-> 0, a |-> new, b |-> new]
      [] prev # NULL /\ new = NULL -> [a_size |-> 0, a |-> prev, b |-> prev]
      [] prev # NULL /\ new # NULL /\ prev.start < new.start ->
            [a_size |-> prev.size, a |-> prev, b |-> new]
      [] OTHER -> [a_size |-> new.size, a |-> new, b |-> prev]

(* The addresses that iteration i reads, and the one it takes. *)
reads(o, i) == {o.a.start + i, o.b.start + i - o.a_size}
takes(o, i) == IF i < o.a_size THEN o.a.start + i ELSE o.b.start + i - o.a_size

num_e164s(prev, new) == field_size(prev) + field_size(new)

(* enclave_rate_limit: a request with no number at all is refused. *)
has_numbers(prev, new) == num_e164s(prev, new) # 0

(* The addresses whose numbers make up the array. *)
merge_e164s(prev, new) ==
    LET o == operands(prev, new)
    IN  [i \in 1 .. num_e164s(prev, new) |-> takes(o, i - 1)]

Addresses(field) == IF field = NULL THEN {} ELSE field.start .. field.start + field.size - 1

(* Fields are allocated one after the other. *)
Apart(f, g) ==
    f # NULL /\ g # NULL => f.start + f.size <= g.start \/ g.start + g.size <= f.start

(* The previous numbers are there, none of them, right before the new ones: *)
(* both fields have one address, and the new ones are taken to be first.    *)
EmptyPrevFirst(prev, new) ==
    prev # NULL /\ new # NULL /\ prev.size = 0 /\ prev.start = new.start

(* The least address that may be read: the start of the workspace, or that  *)
(* of the new numbers less their size, which may be below.                  *)
least_read(prev, new) == IF EmptyPrevFirst(prev, new) THEN new.start - new.size ELSE 0

(* The array has every number of both fields once. No read leaves the       *)
(* workspace unless an empty field of previous numbers comes first; then    *)
(* one does, although the code says that the operands are set up so that    *)
(* the loop never dereferences an invalid location. Its value is not used.  *)
Merged(prev, new) ==
    LET all == merge_e164s(prev, new)
    IN  /\ {all[i] : i \in DOMAIN all} = Addresses(prev) \cup Addresses(new)
        /\ \A i, j \in DOMAIN all : all[i] = all[j] => i = j
        /\ \A i \in DOMAIN all :
              reads(operands(prev, new), i - 1) \subseteq least_read(prev, new) .. WORKSPACE_SIZE - 1

(* The previous numbers to check. *)
MergeJobs == [what : {"merge"}, prev : E164Fields \cup {NULL}]

(* enclave_run: whatever the order of the fields in the message, whichever  *)
(* of them are in it, and also when one is empty, they merge.               *)
MergeComplete ==
    job \in MergeJobs => \A new \in E164Fields \cup {NULL} :
        Apart(job.prev, new) /\ has_numbers(job.prev, new) => Merged(job.prev, new)
=============================================================================
