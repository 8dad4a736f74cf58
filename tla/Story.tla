------------------------------- MODULE Story -------------------------------
(***************************************************************************)
(* The on-device demo (src/edge/story.cpp): the prompt is prefilled in one *)
(* batch, then tokens are generated one at a time, each attending over the *)
(* K/V cache through attention_step_cpu (src/flash_cpu_fast.cpp).          *)
(*                                                                         *)
(* The layers' arithmetic is symbolic. The state x of a position is the    *)
(* token's embedding and, after each layer, that layer's input with the    *)
(* attention of each head. The q, k and v rows of a head are a function of *)
(* layer, position (RoPE) and x, and so one record stands for each of      *)
(* them. The K and V caches are written and read at the same places: one   *)
(* array of head-sized slots stands for both.                              *)
(*                                                                         *)
(* pc: encode (the prompt's tokens), prefill (its loops), prompt (printing *)
(* it, the first sample), loop (the while), row and attend (decode's loop  *)
(* over layers), logits, done.                                             *)
(***************************************************************************)
EXTENDS Softmax, Tokenizer

CONSTANTS Layers, Heads, KvHeads, SeqLen,   \* the checkpoint's Config
          Texts,        \* what may follow -p: prompts that fit the context
          Samples,      \* the tokens sampled, BOS excepted
          MaxSteps,     \* bound on -n
          Dot(_, _),    \* scaled dot product of a q and a k row
          NoRow         \* a row never written, or outside its array

ASSUME StoryAssumption ==
  /\ Layers \in Nat \ {0} /\ Heads \in Nat \ {0} /\ KvHeads \in 1 .. Heads
  /\ SeqLen \in Nat \ {0} /\ MaxSteps \in Nat
  /\ Sentinel \in Int /\ Under \in Nat
  /\ Samples \subseteq Tokens \ {BOS}
  /\ Texts \subseteq Seq(0 .. 255)
  /\ \A s \in Texts : \A i \in DOMAIN s : s[i] + 3 \in Tokens

(* The program does not check it: the prompt fits, with BOS, the space put *)
(* before it, and at worst a token for each byte.                          *)
ASSUME PromptsFit == \A s \in Texts : Len(s) + 2 <= SeqLen

VARIABLES typed, steps,     \* the command line
          pc,
          at, prompt,       \* encode: position in the text, the tokens
          l, p,             \* the layer; the row of prefill
          xall,             \* prefill's x of every position
          cache,            \* key_cache and value_cache
          x, h, t, reg, att,    \* decode: x; head, key; (m, l, o); st.att
          logits,           \* the x they were computed from
          token, prev, pos, generated,
          printed,          \* the output
          text              \* history: the tokens prefilled and decoded

vars == <<typed, steps, pc, at, prompt, l, p, xall, cache, x, h, t, reg, att, logits,
          token, prev, pos, generated, printed, text>>
loopVars == <<token, prev, pos, generated>>
attnVars == <<h, t, reg, att>>

P == Len(prompt)

(* A row of head i at layer y, position n, computed from state s.          *)
Row(y, n, s, i) == [layer |-> y, pos |-> n, head |-> i, x |-> s]

(* st.k holds the rows of KvHeads heads; what prefill copies for head i.   *)
KRow(y, n, s, i) == IF i < KvHeads THEN Row(y, n, s, i) ELSE NoRow

(* Projection, residual and ffn around a layer's attention.                *)
Block(s, a) == [x |-> s, att |-> a]

(* Attention of row q over the rows in S, as the kernels compute it.       *)
Attention(q, S) ==
  LET score == [k \in S |-> Dot(q, k)]
      m == CHOOSE v \in {score[k] : k \in S} : IsMax(v, score, S)
  IN  [num |-> Weights(score, S, m), den |-> Weights(score, S, m)]

(* kc + pos * kv_dim, and the KvHeads slots written there.                 *)
Base_NoLayer(y) == 0                                       \* mutant
Base(y) == y * SeqLen * KvHeads
WriteRow(y, n, s) ==
  [i \in DOMAIN cache |->
     LET j == i - Base(y) - n * KvHeads
     IN  IF j \in 0 .. KvHeads - 1 THEN Row(y, n, s, j) ELSE cache[i]]

(* The slot attention_step_cpu reads for key n of head i: stride n_heads.  *)
StepSlot(y, n, i) == Base(y) + n * Heads + i
StepRow(y, n, i) ==
  IF StepSlot(y, n, i) \in DOMAIN cache THEN cache[StepSlot(y, n, i)] ELSE NoRow

Fresh == [m |-> Sentinel, l |-> {}, acc |-> {}]
NoAtt == [i \in 0 .. Heads - 1 |-> NoRow]

Init ==
  /\ typed \in Texts /\ steps \in 0 .. MaxSteps
  /\ pc = "encode" /\ at = 1 /\ prompt = Start(typed)
  /\ l = 0 /\ p = 0
  /\ xall = <<>>
  /\ cache = [i \in 0 .. Layers * SeqLen * KvHeads - 1 |-> NoRow]
  /\ x = BOS /\ h = 0 /\ t = 0 /\ reg = Fresh /\ att = NoAtt
  /\ logits = NoRow
  /\ token = BOS /\ prev = 0 /\ pos = 0 /\ generated = 0
  /\ printed = <<>> /\ text = <<>>
-----------------------------------------------------------------------------
(* encode takes the text codepoint by codepoint,                           *)
EncodeCodepoint ==
  /\ pc = "encode" /\ at <= Len(typed)
  /\ LET cp == Codepoint(typed, at)
     IN  /\ prompt' = prompt \o TokensOf(cp)
         /\ at' = at + Len(cp)
  /\ UNCHANGED <<typed, steps, pc, l, p, xall, cache, x, logits, printed, text>>
  /\ UNCHANGED attnVars /\ UNCHANGED loopVars

(* then merges pairs as long as there are any.                             *)
MergePair ==
  /\ pc = "encode" /\ at > Len(typed) /\ Pairs(prompt) # {}
  /\ prompt' = Merge(prompt)
  /\ UNCHANGED <<typed, steps, pc, at, l, p, xall, cache, x, logits, printed, text>>
  /\ UNCHANGED attnVars /\ UNCHANGED loopVars

(* prefill starts with the tokens' embeddings.                             *)
Encoded ==
  /\ pc = "encode" /\ at > Len(typed) /\ Pairs(prompt) = {}
  /\ xall' = [n \in 0 .. P - 1 |-> prompt[n + 1]]
  /\ text' = prompt
  /\ pc' = "prefill"
  /\ UNCHANGED <<typed, steps, at, prompt, l, p, cache, x, logits, printed>>
  /\ UNCHANGED attnVars /\ UNCHANGED loopVars
-----------------------------------------------------------------------------
(* prefill, layer l: the K/V row of each position goes to the cache and to *)
(* the kernel's arrays;                                                    *)
PrefillRow ==
  /\ pc = "prefill" /\ l < Layers /\ p < P
  /\ cache' = WriteRow(l, p, xall[p])
  /\ p' = p + 1
  /\ UNCHANGED <<typed, steps, pc, at, prompt, l, xall, x, logits, printed, text>>
  /\ UNCHANGED attnVars /\ UNCHANGED loopVars

(* then causal attention_flash_fast of all rows (module FlashFast), and    *)
(* the rest of the layer at each position.                                 *)
PrefillLayer ==
  /\ pc = "prefill" /\ l < Layers /\ p >= P
  /\ xall' = [n \in 0 .. P - 1 |->
       Block(xall[n], [i \in 0 .. Heads - 1 |->
         Attention(Row(l, n, xall[n], i),
                   {KRow(l, k, xall[k], i) : k \in Visible(n, P, TRUE)})])]
  /\ l' = l + 1 /\ p' = 0
  /\ UNCHANGED <<typed, steps, pc, at, prompt, cache, x, logits, printed, text>>
  /\ UNCHANGED attnVars /\ UNCHANGED loopVars

LastRow == P - 1
PrefillDone ==
  /\ pc = "prefill" /\ l >= Layers
  /\ logits' = xall[LastRow]
  /\ pc' = "prompt"
  /\ UNCHANGED <<typed, steps, at, prompt, l, p, xall, cache, x, printed, text>>
  /\ UNCHANGED attnVars /\ UNCHANGED loopVars

(* main prints the prompt but for its BOS, and samples a first token: any, *)
(* with a temperature.                                                     *)
FirstSample ==
  /\ pc = "prompt"
  /\ printed' = Outputs(BOS, Tail(prompt))
  /\ prev' = prompt[P]
  /\ token' \in Samples \cup {BOS}
  /\ pos' = P
  /\ pc' = "loop"
  /\ UNCHANGED <<typed, steps, at, prompt, l, p, xall, cache, x, logits, generated, text>>
  /\ UNCHANGED attnVars
-----------------------------------------------------------------------------
MayContinue_Unbounded == generated < steps                 \* mutant
MayContinue == pos < SeqLen /\ generated < steps

(* The loop prints the token and decodes it.                               *)
Continue ==
  /\ pc = "loop" /\ MayContinue /\ token # BOS
  /\ printed' = printed \o Output(prev, token)
  /\ prev' = token
  /\ x' = token /\ text' = Append(text, token)
  /\ l' = 0
  /\ pc' = "row"
  /\ UNCHANGED <<typed, steps, at, prompt, p, xall, cache, logits, token, pos, generated>>
  /\ UNCHANGED attnVars

(* It ends at the length of the context, at -n tokens, or at BOS, which    *)
(* delimits stories; the last token sampled is not printed.                *)
Stop ==
  /\ pc = "loop" /\ (~MayContinue \/ token = BOS)
  /\ pc' = "done"
  /\ UNCHANGED <<typed, steps, at, prompt, l, p, xall, cache, x, logits, printed, text>>
  /\ UNCHANGED attnVars /\ UNCHANGED loopVars

(* decode, layer l: the row of position pos goes to the cache,             *)
DecodeRow ==
  /\ pc = "row"
  /\ cache' = WriteRow(l, pos, x)
  /\ h' = 0 /\ t' = 0 /\ reg' = Fresh
  /\ pc' = "attend"
  /\ UNCHANGED <<typed, steps, at, prompt, l, p, xall, x, att, logits, printed, text>>
  /\ UNCHANGED loopVars

(* and each head of attention_step_cpu folds in its n_keys rows,           *)
n_keys_Past == pos                                         \* mutant
n_keys == pos + 1

AttendKey ==
  /\ pc = "attend" /\ h < Heads /\ t < n_keys
  /\ LET k == StepRow(l, t, h)
     IN  reg' = FoldInto(reg, Dot(Row(l, pos, x, h), k), k, k)
  /\ t' = t + 1
  /\ UNCHANGED <<typed, steps, pc, at, prompt, l, p, xall, cache, x, h, att, logits, printed, text>>
  /\ UNCHANGED loopVars

AttendHead ==
  /\ pc = "attend" /\ h < Heads /\ t >= n_keys
  /\ att' = [att EXCEPT ![h] = [num |-> reg.acc, den |-> reg.l]]
  /\ h' = h + 1 /\ t' = 0 /\ reg' = Fresh
  /\ UNCHANGED <<typed, steps, pc, at, prompt, l, p, xall, cache, x, logits, printed, text>>
  /\ UNCHANGED loopVars

(* before the rest of the layer.                                           *)
DecodeLayer ==
  /\ pc = "attend" /\ h >= Heads
  /\ x' = Block(x, att)
  /\ l' = l + 1
  /\ pc' = IF l + 1 < Layers THEN "row" ELSE "logits"
  /\ UNCHANGED <<typed, steps, at, prompt, p, xall, cache, logits, printed, text>>
  /\ UNCHANGED attnVars /\ UNCHANGED loopVars

(* decode ends, and main samples the next token.                           *)
NextSample ==
  /\ pc = "logits"
  /\ logits' = x
  /\ token' \in Samples \cup {BOS}
  /\ pos' = pos + 1 /\ generated' = generated + 1
  /\ pc' = "loop"
  /\ UNCHANGED <<typed, steps, at, prompt, l, p, xall, cache, x, prev, printed, text>>
  /\ UNCHANGED attnVars

Finished == pc = "done" /\ UNCHANGED vars

Prefill == PrefillRow \/ PrefillLayer \/ PrefillDone
Decode == DecodeRow \/ AttendKey \/ AttendHead \/ DecodeLayer
Main == FirstSample \/ Continue \/ Stop \/ NextSample
Encode == EncodeCodepoint \/ MergePair \/ Encoded
Next == Encode \/ Prefill \/ Decode \/ Main \/ Finished

Spec == Init /\ [][Next]_vars
-----------------------------------------------------------------------------
(* Types; rows are written inside the layer's part of the cache, and       *)
(* attention_step_cpu reads inside it.                                     *)
TypeOK ==
  /\ pc \in {"encode", "prefill", "prompt", "loop", "row", "attend", "logits", "done"}
  /\ pos \in 0 .. SeqLen /\ generated \in 0 .. steps
  /\ l \in 0 .. Layers /\ p \in 0 .. P /\ h \in 0 .. Heads /\ t \in 0 .. n_keys
  /\ pc # "encode" => P \in 1 .. SeqLen
  /\ pc = "row" => pos < SeqLen /\ l < Layers
  /\ pc = "attend" /\ h < Heads /\ t < n_keys =>
       StepSlot(l, t, h) \in Base(l) .. Base(l + 1) - 1

(* The states of all positions after y layers, when a text is evaluated at *)
(* once, without a cache: what generation should amount to.                *)
Embedded(s) == [n \in 0 .. Len(s) - 1 |-> s[n + 1]]
Layer(y, N, In) ==
  [n \in 0 .. N - 1 |->
    Block(In[n], [i \in 0 .. Heads - 1 |->
      Attention(Row(y, n, In[n], i), {Row(y, k, In[k], i) : k \in 0 .. n})])]
Evaluated(s) ==
  LET X[y \in 0 .. Layers] ==
        IF y = 0 THEN Embedded(s) ELSE Layer(y - 1, Len(s), X[y - 1])
  IN  X

(* "Kcache/Vcache are [n_keys][n_heads*head_dim] (row t, then head, then   *)
(* dim)" (src/attention.h): read that way, the cache of the layer holds    *)
(* for every position up to the query's the row of the current text there, *)
(* none missing, none of an earlier layer or of another position.          *)
CacheLayout ==
  pc = "attend" =>
    LET X == Evaluated(text)[l]
    IN  \A n \in 0 .. pos, i \in 0 .. Heads - 1 : StepRow(l, n, i) = Row(l, n, X[n], i)

(* Every token is sampled from the logits of the whole text so far: those  *)
(* of evaluating it afresh, though each position was computed only once.   *)
SampledFromText ==
  pc = "loop" => logits = Evaluated(text)[Layers][Len(text) - 1]

(* What printing the prompt back asks of the vocabulary: a piece for the   *)
(* space put before a text, the byte tokens of a text in their places, and *)
(* BOS out of reach of a merge or a codepoint.                             *)
Vocabulary ==
  /\ id(<<Space>>) \in Tokens \ {BOS}
  /\ \A u, v \in Tokens : LET w == id(Piece[u] \o Piece[v])
                          IN  w # BOS /\ (u = BOS => w = None)
  /\ \A s \in Texts : \A i \in DOMAIN s :
       id(Codepoint(s, i)) # BOS /\ Piece[s[i] + 3] = <<Hex + s[i]>>

(* The output is what was typed, byte for byte, whatever was merged or     *)
(* split into bytes on the way in, then each token generated, once; pos    *)
(* counts the positions cached.                                            *)
TextPrinted ==
  pc \in {"loop", "done"} =>
    /\ pos = Len(text) /\ generated = pos - P
    /\ printed = typed \o Outputs(prompt[P], SubSeq(text, P + 1, Len(text)))
=============================================================================
