----------------------------- MODULE DeltaRule -----------------------------
(***************************************************************************)
(* The sequential gated delta rule, the oracle recurrent/ops.py must agree *)
(* with (mlx-lm's gated_delta_ops, reached through recurrent/reference.py):*)
(* a memory decays by the token's gate, is corrected towards the token's   *)
(* value along its key, and answers the token's query.  A masked token     *)
(* leaves the memory alone and its answer is unspecified.                  *)
(*                                                                         *)
(* Arithmetic is exact, in the field of integers modulo Prime.  One value  *)
(* component and two key components are kept: components of a value never  *)
(* meet, components of a key do.                                           *)
(***************************************************************************)
EXTENDS Naturals, SequencesExt

CONSTANT Prime

VARIABLES input,     \* the tokens, with a flag for the valid ones
          done,      \* how many of them the memory has taken in
          memory,    \* the recurrent state
          answers    \* what the first `done` tokens were answered

rvars == <<input, done, memory, answers>>

GF == 0..(Prime - 1)
Sub(a, b) == (a + (Prime - 1) * b) % Prime
Dot(a, b) == (a[1] * b[1] + a[2] * b[2]) % Prime
Scale(c, a) == <<(c * a[1]) % Prime, (c * a[2]) % Prime>>
Add(a, b) == <<(a[1] + b[1]) % Prime, (a[2] + b[2]) % Prime>>

Corrected(m, t) ==
  LET old == Scale(t.g, m)
  IN  Add(old, Scale(t.b * Sub(t.v, Dot(t.k, old)), t.k))

Absorbed(m, t) == IF t.valid THEN Corrected(m, t) ELSE m

MemoryAfter(m, tokens) == FoldLeft(Absorbed, m, tokens)

RInit == /\ done = 0
         /\ answers = <<>>
         /\ memory \in GF \X GF

Take(n) ==
  /\ n \in (done + 1)..Len(input)
  /\ done' = n
  /\ memory' = MemoryAfter(memory, SubSeq(input, done + 1, n))
  /\ Len(answers') = n
  /\ \A i \in 1..done : answers'[i] = answers[i]
  /\ \A i \in (done + 1)..n : input[i].valid =>
        answers'[i] = Dot(input[i].q, MemoryAfter(memory, SubSeq(input, done + 1, i)))
  /\ UNCHANGED input

RNext == \E n \in 1..Len(input) : Take(n)

RSpec == RInit /\ [][RNext]_rvars
=============================================================================
