------------------------------ MODULE Provenance ------------------------------
(***************************************************************************)
(* Provenance: off-chain commitments and Merkle trees.  A text is a        *)
(* sequence of tokens, among them the separator; SHA-256 is taken to be    *)
(* collision free, so a digest is represented by what it is the digest of. *)
(***************************************************************************)
EXTENDS Integers, SequencesExt

Separator == "|"

(* Wrong version of JoinText: the parts side by side.                       *)
Concatenated(parts) == FlattenSeq(parts)

JoinText(parts) ==
    LET text[k \in DOMAIN parts] ==
          IF k = 1 THEN parts[1] ELSE text[k - 1] \o <<Separator>> \o parts[k]
    IN text[Len(parts)]

HashString(text) == <<text>>

(* The text that is hashed; the fields are whatever strings a request has.  *)
ComputeHash(prediction, salt, model_hash, input_hash) ==
    HashString(JoinText(<<prediction, salt, model_hash, input_hash>>))

Verify(hash, o) == ComputeHash(o.prediction, o.salt, o.model_hash, o.input_hash) = hash

-----------------------------------------------------------------------------
(* Merkle trees: a leaf is the digest of its item, a node that of the pair  *)
(* below it, and the last node of an odd level is paired with itself.       *)

(* Two digests, as hex text one token each, joined.                         *)
HashCombined(left, right) == HashString(JoinText(<<<<left>>, <<right>>>>))

(* Wrong version of NextLevel: an odd last node is left out.                *)
NextLevelOfPairs(level) ==
    [k \in 1..(Len(level) \div 2) |-> HashCombined(level[2 * k - 1], level[2 * k])]

NextLevel(level) ==
    [k \in 1..((Len(level) + 1) \div 2) |->
       HashCombined(level[2 * k - 1],
                    IF 2 * k <= Len(level) THEN level[2 * k] ELSE level[2 * k - 1])]

Leaves(items) == [i \in DOMAIN items |-> HashString(items[i])]

(* The levels from the leaves up; the last is repeated at the end.          *)
Levels(items) ==
    LET level[k \in 0..Len(items)] ==
          IF k = 0 THEN Leaves(items)
          ELSE IF Len(level[k - 1]) > 1 THEN NextLevel(level[k - 1]) ELSE level[k - 1]
    IN level

Root(items) == IF items = <<>> THEN HashString(<<"empty">>) ELSE Levels(items)[Len(items)][1]

(* The texts a tree hashes beside its items: those of the nodes on each     *)
(* level above the leaves, or "empty"; a digest is of its one entry.        *)
Heights(items) == {k \in 1..Len(items) : Len(Levels(items)[k - 1]) > 1}

NodeTexts(items) ==
    IF items = <<>> THEN {<<"empty">>}
    ELSE UNION {{digest[1] : digest \in Range(Levels(items)[k])} : k \in Heights(items)}

(* What the tree stands for: the items with the end of the list repeated,   *)
(* as often as it takes to fill every level.  On each level the texts are   *)
(* in blocks of one size, one to a node.                                    *)
Even(texts, block) ==
    IF (Len(texts) \div block) % 2 = 0 THEN texts
    ELSE texts \o SubSeq(texts, Len(texts) - block + 1, Len(texts))

Filled(items) ==
    LET fill[k \in 0..Len(items)] ==
          IF k = 0 THEN [texts |-> items, block |-> 1]
          ELSE LET f == fill[k - 1]
               IN IF Len(f.texts) > f.block
                  THEN [texts |-> Even(f.texts, f.block), block |-> 2 * f.block]
                  ELSE f
    IN fill[Len(items)].texts
=============================================================================
