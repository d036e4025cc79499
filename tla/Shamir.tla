------------------------------ MODULE Shamir -------------------------------
(***************************************************************************)
(* Shamir secret sharing (kms-core/src/shamir.rs): a secret is padded and  *)
(* cut into blocks, each the constant term of a random polynomial over a   *)
(* prime field; holders of the values at 1..n give the secret back.  A     *)
(* hash is abstracted to what it is a hash of.                             *)
(***************************************************************************)
EXTENDS Integers, Sequences, SequencesExt

CONSTANTS
    Prime,              \* FIELD_PRIME, 2^61 - 1 in the code
    ByteBase,           \* the number of byte values, 256 in the code
    BlockSize,          \* bytes of a block, 7 in the code
    SecretsToShare,     \* the byte strings that are split
    RandomElements,     \* what random_field_element may return: not 0
    MaxHolders          \* bound: total_shares

ASSUME ShamirAssumption ==
    /\ ByteBase ^ BlockSize < Prime /\ BlockSize < ByteBase /\ RandomElements \subseteq 1 .. Prime - 1

VARIABLES
    dealt,      \* what split returned, with the secret and the coefficients it used
    brought,    \* the shares that were gathered: [x, y, block_index]
    sound       \* the gathered shares are, unaltered, those of distinct holders, block by block (history)

shamirVars == <<dealt, brought, sound>>

NothingDealt == [secret |-> <<>>, threshold |-> 0, shares |-> <<>>, coefficients |-> <<>>, verifiable |-> FALSE]
ShamirInit == dealt = NothingDealt /\ brought = <<>> /\ sound = FALSE

-----------------------------------------------------------------------------
(* Arithmetic in the field                                                 *)

add_mod(a, b) == (a + b) % Prime
sub_mod(a, b) == (a + Prime - b) % Prime
mul_mod(a, b) == (a * b) % Prime
pow_mod[base \in 0 .. Prime - 1, exp \in 0 .. Prime] ==
    IF exp = 0 THEN 1
    ELSE LET rest == pow_mod[mul_mod(base, base), exp \div 2]
         IN  IF exp % 2 = 1 THEN mul_mod(base, rest) ELSE rest
inv_mod_Fermat(a) == pow_mod[a, Prime - 1]          \* mutant: the exponent is off by one
inv_mod(a) == pow_mod[a, Prime - 2]

evaluate_polynomial(coefficients, x) ==
    FoldLeft(LAMBDA acc, c : [sum |-> add_mod(acc.sum, mul_mod(c, acc.power)), power |-> mul_mod(acc.power, x)],
             [sum |-> 0, power |-> 1], coefficients).sum

\* The value at 0 of the polynomial through the shares of one block.  A repeated
\* x makes a denominator 0, whose "inverse" is 0.
Interpolate(shares) ==
    LET others(i) == SelectSeq([j \in 1 .. Len(shares) |-> j], LAMBDA j : j # i)
        numerator(i) == FoldLeft(LAMBDA n, j : mul_mod(n, shares[j].x), 1, others(i))
        denominator(i) == FoldLeft(LAMBDA d, j : mul_mod(d, sub_mod(shares[j].x, shares[i].x)), 1, others(i))
        term(i) == mul_mod(shares[i].y, mul_mod(numerator(i), inv_mod(denominator(i))))
    IN  FoldLeft(LAMBDA v, i : add_mod(v, term(i)), 0, [i \in 1 .. Len(shares) |-> i])

-----------------------------------------------------------------------------
(* Splitting                                                               *)

\* PKCS#7: there is always padding, a whole block after a full one.
PadLength(len) == BlockSize - (len % BlockSize)
Padded(secret) == secret \o [i \in 1 .. PadLength(Len(secret)) |-> PadLength(Len(secret))]
Block(bytes, b) == FoldLeft(LAMBDA v, byte : v * ByteBase + byte, 0,
                            SubSeq(bytes, b * BlockSize + 1, (b + 1) * BlockSize))
\* What does not fit into a block is cut off at the top.
BlockBytes(v) == [i \in 1 .. BlockSize |-> (v \div ByteBase ^ (BlockSize - i)) % ByteBase]

NumBlocks(secret) == Len(Padded(secret)) \div BlockSize

Dealing(secret, threshold, total, verifiable, coefficients) ==
    LET blocks == NumBlocks(secret)
        share(n) == [x |-> (n % total) + 1, block_index |-> n \div total,
                     y |-> evaluate_polynomial(coefficients[(n \div total) + 1], (n % total) + 1)]
    IN  [secret |-> secret, threshold |-> threshold, coefficients |-> coefficients, verifiable |-> verifiable,
         shares |-> [n \in 1 .. blocks * total |-> share(n - 1)]]

split(secret, threshold, total, verifiable) ==
    /\ dealt = NothingDealt
    /\ threshold >= 2 /\ total >= threshold /\ secret # <<>>
    /\ \E random \in [1 .. NumBlocks(secret) -> [2 .. threshold -> RandomElements]] :
         LET coefficients == [b \in 1 .. NumBlocks(secret) |->
                 [j \in 1 .. threshold |-> IF j = 1 THEN Block(Padded(secret), b - 1) ELSE random[b][j]]]
         IN  dealt' = Dealing(secret, threshold, total, verifiable, coefficients)
    /\ UNCHANGED <<brought, sound>>

\* A commitment is [block, index, hash of the coefficient].
generate_commitments_for_block(coefficients, b) ==
    [i \in 1 .. Len(coefficients) |-> [block_index |-> b, index |-> i - 1, value |-> <<b, i - 1, coefficients[i]>>]]
Commitments ==
    IF ~dealt.verifiable THEN <<>>
    ELSE FlattenSeq([b \in 1 .. Len(dealt.coefficients) |-> generate_commitments_for_block(dealt.coefficients[b], b - 1)])

-----------------------------------------------------------------------------
(* Verification.  Only the range of a single share can be checked.         *)

OfBlock(commitments, b) == SelectSeq(commitments, LAMBDA c : c.block_index = b)
verify_share(share, commitments) ==
    OfBlock(commitments, share.block_index) # <<>> /\ share.y < Prime
verify_share_all_blocks(shares, commitments) ==
    commitments # <<>> /\ \A i \in 1 .. Len(shares) : verify_share(shares[i], commitments)
verify_coefficients_against_commitments(coefficients, commitments, b) ==
    LET c == OfBlock(commitments, b)
    IN  c # <<>> /\ \A i \in 1 .. Len(coefficients) : <<b, i - 1, coefficients[i]>> = c[i].value

-----------------------------------------------------------------------------
(* Gathering and reconstructing                                            *)

ShareOf(x, b) == CHOOSE s \in ToSet(dealt.shares) : s.x = x /\ s.block_index = b
Distinct(xs) == \A i, j \in 1 .. Len(xs) : xs[i] = xs[j] => i = j

\* Holders xs bring their shares, block after block or holder after holder, one
\* share possibly with another value.
Bring(xs, byBlock, altered) ==
    /\ dealt # NothingDealt /\ brought = <<>>
    /\ LET blocks == NumBlocks(dealt.secret)
           holder(n) == IF byBlock THEN (n % Len(xs)) + 1 ELSE (n \div blocks) + 1
           block(n) == IF byBlock THEN n \div Len(xs) ELSE n % blocks
           share(n) == ShareOf(xs[holder(n)], block(n))
           count == blocks * Len(xs)
       IN  /\ altered \in 0 .. count
           /\ brought' = [i \in 1 .. count |->
                  IF i = altered THEN [share(i - 1) EXCEPT !.y = add_mod(@, 1)] ELSE share(i - 1)]
           /\ sound' = (altered = 0 /\ (byBlock \/ blocks = 1) /\ Distinct(xs)
                           /\ Len(xs) >= dealt.threshold)
    /\ UNCHANGED dealt

Unpadded(bytes) ==
    LET pad == Last(bytes)
        start == Len(bytes) - pad
    IN  IF pad > 0 /\ pad <= BlockSize + 1 /\ pad <= Len(bytes) /\ \A i \in start + 1 .. Len(bytes) : bytes[i] = pad
        THEN SubSeq(bytes, 1, start) ELSE bytes

\* The shares of block b are the b-th part of the sequence, whatever their block_index.
ReconstructBytes(shares, blocks) ==
    LET each == Len(shares) \div blocks
    IN  FlattenSeq([b \in 1 .. blocks |-> BlockBytes(Interpolate(SubSeq(shares, (b - 1) * each + 1, b * each)))])

Failed == [success |-> FALSE, secret |-> <<>>]
Succeeded(secret) == [success |-> TRUE, secret |-> secret]

\* metadata: num_blocks, and the length and the hash of the secret.
reconstruct_with_metadata(shares, secret) ==
    LET blocks == NumBlocks(secret)
        found == SubSeq(ReconstructBytes(shares, blocks), 1, Len(secret))
    IN  IF Len(shares) < blocks \/ Len(shares) % blocks # 0 \/ found # secret THEN Failed ELSE Succeeded(found)

\* Without metadata: one block, the padding says how long, and no hash.
reconstruct(shares) == IF shares = <<>> THEN Failed ELSE Succeeded(Unpadded(ReconstructBytes(shares, 1)))
verify_reconstruction(shares, expected) ==
    LET result == reconstruct(shares)
    IN  IF result.success /\ result.secret = expected THEN result ELSE Failed

ShamirNext ==
    \/ \E secret \in SecretsToShare, threshold, total \in 1 .. MaxHolders, verifiable \in BOOLEAN :
          split(secret, threshold, total, verifiable)
    \/ dealt # NothingDealt /\ \E n \in 1 .. MaxHolders, byBlock \in BOOLEAN, altered \in 0 .. 2 :
          \E xs \in [1 .. n -> {dealt.shares[i].x : i \in 1 .. Len(dealt.shares)}] : Bring(xs, byBlock, altered)

-----------------------------------------------------------------------------
(* Properties.                                                             *)

\* The shares of any threshold of distinct holders, in any order of the holders
\* but block by block, give back the secret that was split, at every length up
\* to and over a block boundary, with the metadata and, for one block, without.
Reconstructs ==
    sound => /\ reconstruct_with_metadata(brought, dealt.secret) = Succeeded(dealt.secret)
             /\ NumBlocks(dealt.secret) = 1 => verify_reconstruction(brought, dealt.secret) = Succeeded(dealt.secret)

\* Whatever is brought - too few shares, a holder twice, shares in another order,
\* an altered value - reconstruct_with_metadata gives the secret or an error.
\* Without metadata one altered share gives a wrong answer as if it were right.
NeverWrong ==
    brought # <<>> => LET r == reconstruct_with_metadata(brought, dealt.secret)
                      IN  r.success => r.secret = dealt.secret

\* Every share that was dealt passes verify_share_all_blocks and the coefficients
\* pass the commitments of their block; an unverifiable dealing passes nothing.
Verifies ==
    dealt # NothingDealt =>
        /\ verify_share_all_blocks(dealt.shares, Commitments) = dealt.verifiable
        /\ \A b \in 1 .. Len(dealt.coefficients) :
              verify_coefficients_against_commitments(dealt.coefficients[b], Commitments, b - 1) = dealt.verifiable

\* Enough shares give the secret, and nothing else passes for it.
ShamirSound == Reconstructs /\ NeverWrong /\ Verifies

=============================================================================
