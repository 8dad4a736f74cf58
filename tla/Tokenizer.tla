----------------------------- MODULE Tokenizer -----------------------------
(***************************************************************************)
(* struct Tokenizer (src/edge/story.cpp): a byte-pair encoder over the     *)
(* vocabulary of the checkpoint, and its printing of tokens.               *)
(*                                                                         *)
(* A text is a sequence of bytes. The piece of a token is one too, but the *)
(* six characters <0xNN> of the piece of a byte token are one symbol,      *)
(* Hex + NN: neither a text nor another piece of the vocabulary has them.  *)
(***************************************************************************)
EXTENDS Integers, Sequences, FiniteSets
LOCAL INSTANCE SequencesExt

CONSTANTS Piece,        \* vocab: the piece of each token
          Merit,        \* score: the score of each token
          Floor         \* encode's -1e10: merges score more

BOS == 1
Space == 32
Hex == 256
Tokens == DOMAIN Piece

(* Each byte has a token, three places on: encode relies on it.            *)
ASSUME TokenizerAssumption ==
  /\ IsFiniteSet(Tokens) /\ BOS \in Tokens /\ Tokens \subseteq Nat
  /\ Merit \in [Tokens -> Int] /\ Floor \in Int
  /\ \A v \in Tokens : Piece[v] \in Seq(Nat)
  /\ \A v \in Tokens : \A i \in DOMAIN Piece[v] :
       Piece[v][i] >= Hex => v = BOS \/ Piece[v] = <<Hex + v - 3>>

(* The token of a piece; load lets a later duplicate replace an earlier.   *)
None == -1
id(s) ==
  LET T == {v \in Tokens : Piece[v] = s}
  IN  IF T = {} THEN None ELSE CHOOSE v \in T : \A u \in T : u <= v

(* encode starts from BOS and, for a text that is not empty, a space.      *)
Start(text) ==
  IF text # <<>> /\ id(<<Space>>) # None THEN <<BOS, id(<<Space>>)>> ELSE <<BOS>>

(* The codepoint at position i, as long as its first byte says or as the   *)
(* text lasts, and its tokens: its own, or one for each byte.              *)
Width(b) == IF b >= 240 THEN 4 ELSE IF b >= 224 THEN 3 ELSE IF b >= 192 THEN 2 ELSE 1
Codepoint(text, i) ==
  LET end == i + Width(text[i]) - 1
  IN  SubSeq(text, i, IF end < Len(text) THEN end ELSE Len(text))
TokensOf(cp) ==
  IF id(cp) # None THEN <<id(cp)>> ELSE [j \in DOMAIN cp |-> cp[j] + 3]

(* The adjacent pairs that are a piece together, and score enough; the     *)
(* pair merged next has the highest score, and is the leftmost of those    *)
(* that do.                                                                *)
Joined(toks, i) == id(Piece[toks[i]] \o Piece[toks[i + 1]])
Pairs(toks) == {i \in 1 .. Len(toks) - 1 :
                 Joined(toks, i) # None /\ Merit[Joined(toks, i)] > Floor}
BestPair(toks) ==
  LET M(i) == Merit[Joined(toks, i)]
  IN  CHOOSE i \in Pairs(toks) : \A j \in Pairs(toks) :
        M(j) < M(i) \/ (M(j) = M(i) /\ i <= j)

(* Mutant: the token merged is erased, not the one after it.               *)
Merge_EraseFirst(toks) ==
  LET i == BestPair(toks) IN RemoveAt(ReplaceAt(toks, i, Joined(toks, i)), i)

Merge(toks) ==
  LET i == BestPair(toks) IN RemoveAt(ReplaceAt(toks, i, Joined(toks, i)), i + 1)

(* print: the bytes a token adds to the output. One that follows BOS loses *)
(* a leading space; a byte token gives its byte.                           *)
Spelled(s) == IF s # <<>> /\ Head(s) >= Hex THEN <<Head(s) - Hex>> ELSE s
Output(prev, tok) ==
  LET s == Piece[tok]
  IN  Spelled(IF prev = BOS /\ s # <<>> /\ Head(s) = Space THEN Tail(s) ELSE s)

(* What a sequence of tokens prints after token prev.                      *)
Outputs(prev, toks) ==
  FlattenSeq([i \in DOMAIN toks |-> Output((<<prev>> \o toks)[i], toks[i])])
=============================================================================
