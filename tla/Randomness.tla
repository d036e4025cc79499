------------------------------ MODULE Randomness ------------------------------
(***************************************************************************)
(* Random bytes: GmRng, the HMAC-SM3 generator of                          *)
(* crates/kms-core/src/csprng.rs, and its self test.                       *)
(*                                                                         *)
(* SM3 and HMAC are taken for injective: the state of a generator is the   *)
(* list of what has been mixed into it, and a block that it gives out is   *)
(* told apart by the state it was made from and its place in the call.     *)
(* getrandom gives bytes it never gave before, or an error.                *)
(***************************************************************************)
EXTENDS Naturals, Sequences, FiniteSets

CONSTANTS
    Generators,      \* the GmRngs
    ReseedInterval,  \* DEFAULT_RESEED_INTERVAL (1024)
    Seeds,           \* seeds of from_seed
    Blocks,          \* lengths asked for, in blocks of 32 bytes
    MaxDraws         \* bound: calls

ASSUME RandomnessAssumption ==
    /\ ReseedInterval \in Nat \ {0} /\ MaxDraws \in Nat /\ Blocks \subseteq Nat
    /\ \E s, t \in Seeds : s # t

VARIABLES
    rng,      \* generator -> [state, interval, countdown]
    entropy,  \* draws that getrandom answered
    draws,    \* calls
    outputs,  \* generator -> the calls' blocks, since new, from_seed or clone (history)
    since,    \* generator -> outputs since getrandom last fed it (history)
    verified  \* the answer of verify

rngVars == <<rng, entropy, draws, outputs, since, verified>>

NoRng == [state |-> <<>>, interval |-> 0, countdown |-> 0]

RngInit ==
    /\ rng = [g \in Generators |-> NoRng]
    /\ entropy = 0 /\ draws = 0
    /\ outputs = [g \in Generators |-> <<>>]
    /\ since = [g \in Generators |-> 0]
    /\ verified = "none"

-----------------------------------------------------------------------------
(* The state of a generator.                                               *)

FreshEntropy == <<"os", entropy + 1>>

\* State::from_seed: the hash of the seed, and a counter that is always the same.
from_seed(seed) == [state |-> <<<<"seed", seed>>>>, interval |-> 0, countdown |-> 0]

update(state, input) == Append(state, input)

\* State::generate: the counter moves on with every block, and the update that
\* ends the call depends on where it got to.
BlocksOf(state, n) == {<<state, i>> : i \in 1..n}
Generated(state, n) == update(state, <<"generate", n>>)

\* getrandom answered: the countdown begins again.
Reseeded(r) ==
    [state |-> update(r.state, FreshEntropy), interval |-> r.interval, countdown |-> r.interval]

\* mutant: the countdown begins again although no entropy came
AfterFailure_Reset(r) == [r EXCEPT !.countdown = r.interval]

\* getrandom failed when the countdown was over: it stays over.
AfterFailure(r) == [r EXCEPT !.countdown = 0]

\* maybe_periodic_reseed, with the answer of getrandom: the generator, whether
\* the call may go on and whether entropy came in.
maybe_periodic_reseed(r, answered) ==
    LET countdown == IF r.countdown = 0 THEN 0 ELSE r.countdown - 1
    IN  CASE r.interval = 0 -> [r |-> r, ok |-> TRUE, fed |-> FALSE]
          [] r.interval > 0 /\ countdown > 0 ->
               [r |-> [r EXCEPT !.countdown = countdown], ok |-> TRUE, fed |-> FALSE]
          [] r.interval > 0 /\ countdown = 0 /\ answered ->
               [r |-> Reseeded(r), ok |-> TRUE, fed |-> TRUE]
          [] OTHER -> [r |-> AfterFailure(r), ok |-> FALSE, fed |-> FALSE]

-----------------------------------------------------------------------------
(* Calls.                                                                  *)

Call == draws < MaxDraws /\ draws' = draws + 1

\* A generator begins a life of its own.
BeginRng(g, r, fedWith) ==
    /\ rng[g] = NoRng
    /\ rng' = [rng EXCEPT ![g] = r]
    /\ entropy' = entropy + fedWith
    /\ UNCHANGED <<outputs, since, verified>>

\* GmRng::new draws a key and a counter; an error of either is the caller's.
new_rng(g) ==
    /\ Call
    /\ BeginRng(g, [state |-> <<FreshEntropy>>, interval |-> ReseedInterval, countdown |-> ReseedInterval], 1)

seeded_rng(g, seed) == Call /\ BeginRng(g, from_seed(seed), 0)

clone_rng(g, h) ==
    /\ Call /\ rng[g] # NoRng
    /\ rng[h] = NoRng
    /\ rng' = [rng EXCEPT ![h] = rng[g]]
    /\ since' = [since EXCEPT ![h] = since[g]]
    /\ UNCHANGED <<entropy, outputs, verified>>

\* The caller's own entropy: the countdown goes on.
reseed(g, input) ==
    /\ Call /\ rng[g] # NoRng
    /\ rng' = [rng EXCEPT ![g].state = update(@, <<"caller", input>>)]
    /\ UNCHANGED <<entropy, outputs, since, verified>>

\* n blocks come out of r, which becomes the state of g.
GiveOut(g, r, n, fed) ==
    /\ rng' = [rng EXCEPT ![g] = [r EXCEPT !.state = Generated(@, n)]]
    /\ outputs' = [outputs EXCEPT ![g] = Append(@, BlocksOf(r.state, n))]
    /\ since' = [since EXCEPT ![g] = IF fed THEN 1 ELSE @ + 1]
    /\ entropy' = IF fed THEN entropy + 1 ELSE entropy

\* random_bytes and fill.
random_bytes(g, n, answered) ==
    LET turn == maybe_periodic_reseed(rng[g], answered)
    IN  /\ Call /\ rng[g] # NoRng
        /\ \/ turn.ok /\ GiveOut(g, turn.r, n, turn.fed)
           \/ /\ ~turn.ok
              /\ rng' = [rng EXCEPT ![g] = turn.r]
              /\ UNCHANGED <<entropy, outputs, since>>
        /\ UNCHANGED verified

\* An error of getrandom comes before anything is changed.
random_bytes_with_reseed(g, n) ==
    /\ Call /\ rng[g] # NoRng
    /\ GiveOut(g, Reseeded(rng[g]), n, TRUE)
    /\ UNCHANGED verified

\* self_test: two generators from one seed and one from another; the vector that
\* was written down is what the first gave.
First(seed) == BlocksOf(maybe_periodic_reseed(from_seed(seed), FALSE).r.state, 1)
self_test ==
    LET s == CHOOSE s \in Seeds : TRUE
        t == CHOOSE t \in Seeds : t # s
    IN  First(s) = First(s) /\ First(t) # First(s)

\* verify: one byte of entropy, the self test, and two draws that differ.
verify_rng(answered) ==
    /\ Call
    /\ verified' = IF answered /\ self_test THEN "ok" ELSE "error"
    /\ UNCHANGED <<rng, entropy, outputs, since>>

RngNext ==
    \/ \E g \in Generators :
         \/ new_rng(g)
         \/ \E seed \in Seeds : seeded_rng(g, seed) \/ reseed(g, seed)
         \/ \E h \in Generators \ {g} : clone_rng(g, h)
         \/ \E n \in Blocks :
              \/ \E answered \in BOOLEAN : random_bytes(g, n, answered)
              \/ random_bytes_with_reseed(g, n)
    \/ \E answered \in BOOLEAN : verify_rng(answered)

-----------------------------------------------------------------------------
(* Properties.                                                             *)

GivenOut(g) == UNION {outputs[g][i] : i \in DOMAIN outputs[g]}
OfSystem(g) == rng[g].interval > 0

\* A generator of the system's entropy gives out no more than an interval's
\* outputs before it takes new entropy, also when getrandom fails over and over.
FedInTime == \A g \in Generators : OfSystem(g) => since[g] <= ReseedInterval

\* No block is given twice by one generator.  Two generators of the system's
\* entropy give the same block only when one is a clone of the other, and part
\* ways before their next reseeding is over.
ClonesPart ==
    /\ \A g \in Generators : \A i, j \in DOMAIN outputs[g] : i # j => outputs[g][i] \cap outputs[g][j] = {}
    /\ \A g, h \in Generators :
         g # h /\ OfSystem(g) => Cardinality({i \in DOMAIN outputs[g] :
                                    outputs[g][i] \cap GivenOut(h) # {}}) < ReseedInterval

\* What comes out of the generators is fed in time and given twice only by
\* clones.
RandomnessSound == FedInTime /\ ClonesPart

=============================================================================
