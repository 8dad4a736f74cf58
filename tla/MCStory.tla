------------------------------ MODULE MCStory ------------------------------
(* A small model for Story. The scores of keys rise and fall with the      *)
(* position, so the running maximum changes once or more, and one term     *)
(* underflows.                                                             *)
EXTENDS Story, TLC

MCDot(q, k) ==
  IF k = NoRow THEN 0
  ELSE ((q.head + 2 * q.pos + q.layer + 3 * k.pos) % 5) * 2 - 4

MCSentinel == -100

(* Pieces: those of the byte tokens, " ", "a" (which comes twice), " a",    *)
(* "aa" and " aa"; two spaces, whose score is too low for a merge.         *)
MCPiece == 1 :> <<1000>>
           @@ 35 :> <<Hex + 32>> @@ 100 :> <<Hex + 97>>
           @@ 198 :> <<Hex + 195>> @@ 172 :> <<Hex + 169>>
           @@ 300 :> <<Space>> @@ 301 :> <<97>> @@ 302 :> <<97>>
           @@ 303 :> <<Space, 97>> @@ 304 :> <<97, 97>>
           @@ 305 :> <<Space, 97, 97>> @@ 306 :> <<Space, Space>>
MCFloor == -100
MCMerit == [v \in DOMAIN MCPiece |->
              CASE v = 304 -> -1 [] v \in {303, 305} -> -2
                [] v = 306 -> MCFloor [] OTHER -> -9]
MCSamples == {303, 198}

(* All texts of up to three bytes: merges that compete, tie and cascade, a *)
(* space typed, a codepoint that is no piece, one cut short, stray bytes.  *)
MCTexts == UNION {[1 .. n -> {Space, 97, 195, 169}] : n \in 0 .. 3}

ASSUME MCVocabulary == Vocabulary
=============================================================================
