------------------------- MODULE AgentRuntime_proofs -------------------------
(***************************************************************************)
(* What the calls of agentRuntime.ts join belongs together, for every      *)
(* chain, however it grows and is replaced between two requests; and what  *)
(* a search selects is explained and is what agentDiscovery.ts selects.    *)
(***************************************************************************)
EXTENDS AgentRuntime, Selection_proofs

-----------------------------------------------------------------------------
(***************************************************************************)
(* Numbers and sequences.                                                  *)
(***************************************************************************)
\* The elements of two sequences, one after the other.
LEMMA Concatenation ==
    ASSUME NEW S, NEW s \in Seq(S), NEW t \in Seq(S)
    PROVE  /\ s \o t \in Seq(S) /\ Len(s \o t) = Len(s) + Len(t)
           /\ \A i \in 1 .. Len(s) + Len(t) :
                (s \o t)[i] = IF i <= Len(s) THEN s[i] ELSE t[i - Len(s)]
OBVIOUS

\* One element of a sequence.
LEMMA OneElement ==
    ASSUME NEW S, NEW s \in Seq(S), NEW i \in 1 .. Len(s)
    PROVE  SubSeq(s, i, i) = <<s[i]>>
<1> DEFINE one == SubSeq(s, i, i)
           two == <<s[i]>>
<1>1. one \in Seq(S) /\ Len(one) = 1 /\ one[1] = s[i]
    OBVIOUS
<1>2. two \in Seq(S) /\ Len(two) = 1 /\ two[1] = s[i]
    OBVIOUS
<1> HIDE DEF one, two
<1>3. one = two
    BY <1>1, <1>2
<1> QED
    BY <1>3 DEF one, two

-----------------------------------------------------------------------------
(***************************************************************************)
(* The blocks methods read.                                                *)
(***************************************************************************)
\* The methods named here have the default the rows give them: no name is in
\* two rows.
LEMMA Defaults ==
    /\ Client!DefaultBlock["getContractMetadata"] = "latest"
    /\ Client!DefaultBlock["getBalance"] = "latest"
    /\ Client!DefaultBlock["getStorageAt"] = "latest"
    /\ Client!DefaultBlock["getCode"] = "latest"
    /\ Client!DefaultBlock["getTransactionCount"] = "pending"
    /\ Client!DefaultBlock["call"] = "latest"
    /\ Client!DefaultBlock["callWithOverrides"] = "latest"
    /\ Client!DefaultBlock["getBlockByNumber"] = "latest"
    /\ Client!DefaultBlock["getHeaderByNumber"] = "latest"
<1> DEFINE latest == {"getContractMetadata", "getBalance", "getStorageAt",
                      "getCode", "call", "callWithOverrides",
                      "getBlockByNumber", "getHeaderByNumber"}
           default(m) == IF m \in latest THEN "latest" ELSE "pending"
           names == latest \cup {"getTransactionCount"}
<1>1. \A m \in names : <<m, default(m)>> \in Client!Rows
    BY DEF Client!Rows, Client!Methods, Client!Accounts, Client!Blocks,
           Client!Calls, Client!Registries
<1>2. \A row \in Client!Rows : row[1] \in names => row[2] = default(row[1])
    BY DEF Client!Rows, Client!Methods, Client!Accounts, Client!Privacy,
           Client!Blocks, Client!Calls, Client!Counts, Client!Consensus,
           Client!Agents, Client!ChainState, Client!Pool, Client!Boundaries,
           Client!Registries, Client!Versions
<1> HIDE DEF names, default
<1>3. ASSUME NEW m \in names
      PROVE  Client!DefaultBlock[m] = default(m)
    <2>1. m \in {row[1] : row \in Client!Rows}
        <3>1. PICK row \in Client!Rows : row = <<m, default(m)>>
            BY <1>1
        <3>2. row[1] = m
            BY <3>1
        <3> QED
            BY <3>2
    <2>2. (CHOOSE row \in Client!Rows : row[1] = m)[2] = default(m)
        BY <1>1, <1>2
    <2> QED
        BY <2>1, <2>2 DEF Client!DefaultBlock
<1> QED
    BY <1>3 DEF names, default

\* A block with a number, given to a method that takes one, is the block its
\* request names.
LEMMA NumberIsRead ==
    ASSUME NEW m, NEW block, NEW last \in Nat, Pinned(block, last),
           Client!DefaultBlock[m] \notin {"none", "fixed"}
    PROVE  Client!RequestBlock(m, block) = [quantity |-> block.number]
BY DEF Pinned, Client!IsNumber, Client!NormalizeBlockTag, Client!RequestBlock

\* ... and so it is under the name goClientParity gives the method.
LEMMA ParityNumberIsRead ==
    ASSUME NEW f \in {"balanceAt", "storageAt", "codeAt", "nonceAt",
                      "callContract", "callContractWithOverrides",
                      "blockByNumber", "headerByNumber"},
           NEW block, NEW last \in Nat, Pinned(block, last)
    PROVE  Client!ParityBlock(f, block) = [quantity |-> block.number]
<1> DEFINE m == IF f \in DOMAIN Client!ReadsAt THEN Client!ReadsAt[f]
                ELSE Client!Renamed[f]
<1>1. f \notin DOMAIN Client!PendingReads
    BY DEF Client!PendingReads
<1>2. m \in {"getBalance", "getStorageAt", "getCode", "getTransactionCount",
             "call", "callWithOverrides", "getBlockByNumber",
             "getHeaderByNumber"}
    BY DEF Client!ReadsAt, Client!Renamed
<1> HIDE DEF m
<1>3. Client!DefaultBlock[m] \notin {"none", "fixed"}
    BY <1>2, Defaults
<1>4. Client!RequestBlock(m, block) = [quantity |-> block.number]
    BY <1>3, NumberIsRead
<1> QED
    BY <1>1, <1>4 DEF Client!ParityBlock, m

\* The contracts of a surface are read at the block with the number given.
LEMMA MetadataNumberIsRead ==
    ASSUME NEW last \in Nat, Pinned(call.block, last)
    PROVE  MetadataBlock = [quantity |-> call.block.number]
BY Defaults, NumberIsRead DEF MetadataBlock

\* The node reads the block a number means.
LEMMA QuantityIsNumber ==
    ASSUME NEW n \in Nat
    PROVE  NumberOf([quantity |-> n]) = n
<1> DEFINE q == [quantity |-> n]
<1>1. q \in [quantity : Nat]
    OBVIOUS
<1>2. DOMAIN q = {"quantity"} /\ q.quantity = n
    OBVIOUS
<1> HIDE DEF q
<1> DEFINE quantities == [quantity : Nat]
<1>3. q # Undefined /\ q # Thrown
    <2>1. q \in quantities
        BY <1>1
    <2>2. {Undefined, Thrown} \cap quantities = {}
        BY RuntimeAssumption DEF RuntimeAssumption
    <2> HIDE DEF quantities
    <2> QED
        BY <2>1, <2>2
<1>4. NumberOf(q) = n
    BY <1>2, <1>3 DEF NumberOf
<1> QED
    BY <1>4 DEF q

-----------------------------------------------------------------------------
(***************************************************************************)
(* The inductive invariant.                                                *)
(***************************************************************************)
Blocks ==
    [id : Nat, code : [Addresses -> Codes \cup {Undefined}],
     receipts : [Refs -> {"none", "open", "settled"}]]

\* The chain has a block, and its final ones are part of it.
ChainOK ==
    /\ chain \in Seq(Blocks) /\ ids \in Nat
    /\ final \in Nat /\ final < Len(chain)

Receipts ==
    UNION {{ReceiptOf(r, s) : s \in {SettlementOf(r), Undefined, NoRef}} :
              r \in Refs}

Effects == {EffectOf(r) : r \in Refs}

Parts == [receipt : Receipts \cup {Undefined}, effect : Effects \cup {Undefined},
          sender : Surfaces, recipient : Surfaces]

SettlementStages == {"receipt", "effect", "sender", "recipient"}
SearchStages == {"search", "card", "runtime"}

Settling == call # Undefined /\ call.kind \in DOMAIN Plan

\* The stage fits the call; nothing has been read before it.
StagesOK ==
    /\ stage \in SettlementStages \cup SearchStages
                    \cup {"idle", "done", "rejected"}
    /\ stage = "idle" => /\ call = Undefined /\ observed = Undefined
                         /\ parts = NoParts /\ entries = <<>>
    /\ stage \in SettlementStages => Settling
    /\ stage \in SearchStages => call # Undefined /\ call.kind = "search"
    /\ call # Undefined => call \in Calls /\ call.final <= final
    /\ parts \in Parts

\* Entries are joined in the order of results, and there is a result left
\* while one is being joined.
SearchOK ==
    /\ entries \in Seq(Entries) /\ results \in Seq(Results)
    /\ stage \in {"card", "runtime"} => Len(entries) < Len(results)
    /\ stage = "runtime" => card \in Addresses

PinnedCall == call # Undefined /\ Pinned(call.block, call.final)
PinnedBlock == chain[call.block.number + 1]

\* The contracts joined so far are those of the block the call is pinned to.
IsPinned(runtime) ==
    PinnedCall /\ runtime # Undefined =>
        runtime = Runtime(PinnedBlock, runtime.address)

EntriesPinned == \A i \in DOMAIN entries : IsPinned(entries[i].runtime)

\* ... and so are the parties behind it once the call has passed them.
PartiesPinned ==
    PinnedCall /\ call.kind \in WithParties =>
        /\ stage \in {"recipient", "done"} /\ Party(parts, "sender") # Undefined =>
            parts.sender = Runtime(PinnedBlock, Party(parts, "sender"))
        /\ stage = "done" /\ Party(parts, "recipient") # Undefined =>
            parts.recipient = Runtime(PinnedBlock, Party(parts, "recipient"))

Settled(receipt) == receipt # Undefined /\ Given(receipt.settlement)

\* Receipt and effect fit each other.
Whole(found) ==
    /\ found.receipt # Undefined /\ found.effect # Undefined =>
        /\ found.effect.receipt = found.receipt.ref
        /\ Settled(found.receipt) =>
            found.receipt.settlement = found.effect.ref
    /\ ~call.replaced => (Settled(found.receipt) <=> found.effect # Undefined)

\* A settlement is read in the order of its plan.
PartsRead ==
    Settling =>
        /\ IF First = "receipt" THEN call.ref \in Refs
           ELSE call.ref \in {SettlementOf(r) : r \in Refs}
        /\ stage = First => parts = NoParts
        /\ stage \notin {First, "rejected"} =>
            parts[First] # Undefined /\ parts[First].ref = call.ref
        /\ stage \in {"receipt", "effect"} \ {First} =>
            parts[stage] = Undefined /\ Given(Link(parts))
        /\ stage \in {"sender", "recipient"} => Party(parts, stage) # Undefined
        /\ stage \in {"sender", "recipient", "done"} => Whole(parts)

\* What has been read as settled is settled, unless a block was replaced.
SettledIn(block, found) ==
    /\ Settled(found.receipt) => block.receipts[found.receipt.ref] = "settled"
    /\ found.effect # Undefined =>
        block.receipts[found.effect.receipt] = "settled"

StillSettled == Settling /\ ~call.replaced => SettledIn(Tip, parts)

\* A read of final blocks stays what it is.
ReadRepeats ==
    observed # Undefined =>
        observed.final \in Nat /\ observed.final <= final /\ FinalReadsRepeat

IInv ==
    /\ ChainOK /\ StagesOK /\ SearchOK /\ EntriesPinned /\ PartiesPinned
    /\ PartsRead /\ StillSettled /\ ReadRepeats

-----------------------------------------------------------------------------
(***************************************************************************)
(* The chain.                                                              *)
(***************************************************************************)
\* The last block, and those a number names, are blocks.
LEMMA ChainFacts ==
    ASSUME ChainOK
    PROVE  /\ Tip \in Blocks
           /\ Len(chain) \in Nat /\ Len(chain) > 0
           /\ \A i \in 1 .. Len(chain) : chain[i] \in Blocks
BY DEF ChainOK, Tip

\* A block after another is a block, and settles what that one has settled.
LEMMA SuccessorFacts ==
    ASSUME NEW b \in Blocks, NEW s \in Successors(b), NEW id \in Nat
    PROVE  /\ Block(id, s[1], s[2]) \in Blocks
           /\ \A r \in Refs : b.receipts[r] = "settled" =>
                Block(id, s[1], s[2]).receipts[r] = "settled"
<1>1. /\ b.code \in [Addresses -> Codes \cup {Undefined}]
      /\ b.receipts \in [Refs -> {"none", "open", "settled"}]
    BY DEF Blocks
<1>2. \/ s = <<b.code, b.receipts>>
      \/ \E a \in Addresses, c \in Codes :
            s = <<[b.code EXCEPT ![a] = c], b.receipts>>
      \/ \E r \in Refs :
            s = <<b.code, [b.receipts EXCEPT ![r] =
                              IF @ = "none" THEN "open" ELSE "settled"]>>
    BY DEF Successors
<1>3. /\ s[1] \in [Addresses -> Codes \cup {Undefined}]
      /\ s[2] \in [Refs -> {"none", "open", "settled"}]
      /\ \A r \in Refs : b.receipts[r] = "settled" => s[2][r] = "settled"
    BY <1>1, <1>2
<1> QED
    BY <1>3 DEF Block, Blocks

\* A longer chain: every block is where it was.
LEMMA MineFacts ==
    ASSUME ChainOK, Mine
    PROVE  /\ ChainOK' /\ final' = final
           /\ Len(chain') = Len(chain) + 1
           /\ \A i \in 1 .. Len(chain) : chain'[i] = chain[i]
           /\ \A r \in Refs : Tip.receipts[r] = "settled" =>
                Tip'.receipts[r] = "settled"
<1>1. PICK s \in Successors(Tip) : chain' = Append(chain, Block(ids, s[1], s[2]))
    BY DEF Mine, Grow, Tip
<1>2. ids' = ids + 1 /\ final' = final
    BY DEF Mine, Grow
<1> DEFINE b == Block(ids, s[1], s[2])
<1>3. /\ b \in Blocks
      /\ \A r \in Refs : Tip.receipts[r] = "settled" =>
            b.receipts[r] = "settled"
    BY ChainFacts, SuccessorFacts DEF ChainOK
<1> HIDE DEF b
<1>4. /\ chain' \in Seq(Blocks) /\ Len(chain') = Len(chain) + 1
      /\ chain'[Len(chain) + 1] = b
      /\ \A i \in 1 .. Len(chain) : chain'[i] = chain[i]
    BY <1>1, <1>3 DEF ChainOK, b
<1>5. Tip' = b
    BY <1>4 DEF Tip
<1> QED
    BY <1>2, <1>3, <1>4, <1>5 DEF ChainOK

\* A replaced block: the final ones are where they were.
LEMMA ReorganizeFacts ==
    ASSUME ChainOK, Reorganize
    PROVE  /\ ChainOK' /\ final' = final
           /\ Len(chain') = Len(chain)
           /\ \A i \in 1 .. final + 1 : chain'[i] = chain[i]
<1> DEFINE base == SubSeq(chain, 1, Len(chain) - 1)
<1>1. Len(chain) \in Nat /\ final \in Nat /\ final < Len(chain) - 1
    BY ChainFacts DEF ChainOK, Reorganize
<1>2. /\ base \in Seq(Blocks) /\ Len(base) = Len(chain) - 1
      /\ \A i \in 1 .. Len(base) : base[i] = chain[i]
    BY <1>1 DEF ChainOK
<1> HIDE DEF base
<1>3. base[Len(base)] \in Blocks
    BY <1>1, <1>2
<1>4. PICK s \in Successors(base[Len(base)]) :
        chain' = Append(base, Block(ids, s[1], s[2]))
    BY DEF Reorganize, Grow, base
<1>5. ids' = ids + 1 /\ final' = final
    BY DEF Reorganize, Grow
<1>6. Block(ids, s[1], s[2]) \in Blocks
    BY <1>3, SuccessorFacts DEF ChainOK
<1>7. /\ chain' \in Seq(Blocks) /\ Len(chain') = Len(chain)
      /\ \A i \in 1 .. Len(chain) - 1 : chain'[i] = chain[i]
    BY <1>1, <1>2, <1>4, <1>6
<1> QED
    BY <1>1, <1>5, <1>7 DEF ChainOK

\* The block a call is pinned to, and what was read of final blocks, stay as
\* long as the final blocks do.
LEMMA FinalStays ==
    ASSUME ChainOK, ChainOK', final <= final',
           \A i \in 1 .. final + 1 : chain'[i] = chain[i]
    PROVE  /\ \A n \in 0 .. final : chain'[n + 1] = chain[n + 1]
           /\ \A m, n \in 0 .. final :
                SubSeq(chain', m + 1, n + 1) = SubSeq(chain, m + 1, n + 1)
<1>1. /\ final \in Nat /\ final < Len(chain) /\ final < Len(chain')
      /\ Len(chain) \in Nat /\ Len(chain') \in Nat
      /\ chain \in Seq(Blocks) /\ chain' \in Seq(Blocks)
    BY DEF ChainOK
<1>2. ASSUME NEW m \in 0 .. final, NEW n \in 0 .. final
      PROVE  SubSeq(chain', m + 1, n + 1) = SubSeq(chain, m + 1, n + 1)
    <2>1. SubSeq(chain', m + 1, n + 1)
            = [i \in 1 .. n - m + 1 |-> chain'[i + m]]
        BY <1>1
    <2>2. SubSeq(chain, m + 1, n + 1)
            = [i \in 1 .. n - m + 1 |-> chain[i + m]]
        BY <1>1
    <2>3. \A i \in 1 .. n - m + 1 : chain'[i + m] = chain[i + m]
        BY <1>1
    <2> QED
        BY <2>1, <2>2, <2>3
<1> QED
    BY <1>1, <1>2

\* A step of the chain, seen from the call: final blocks stay, and either what
\* is settled stays settled or the call learns of a replaced block.
LEMMA ChainStep ==
    ASSUME IInv, ChainOK', final <= final',
           \A i \in 1 .. final + 1 : chain'[i] = chain[i],
           UNCHANGED <<stage, parts, results, card, entries, observed>>,
           \/ call' = call /\ \A r \in Refs : Tip.receipts[r] = "settled" =>
                                Tip'.receipts[r] = "settled"
           \/ call' = IF call = Undefined THEN call
                      ELSE [call EXCEPT !.replaced = TRUE]
    PROVE  IInv'
<1>1. /\ ChainOK /\ StagesOK /\ SearchOK /\ EntriesPinned /\ PartiesPinned
      /\ PartsRead /\ StillSettled /\ ReadRepeats
    BY DEF IInv
<1>2. final \in Nat /\ final' \in Nat
    BY <1>1 DEF ChainOK
<1>3. call' # Undefined =>
        /\ call # Undefined /\ call \in Calls /\ call' \in Calls
        /\ call'.kind = call.kind /\ call'.ref = call.ref
        /\ call'.block = call.block /\ call'.final = call.final
        /\ ~call'.replaced => call' = call
        /\ call.final \in Nat /\ call.final <= final
    BY <1>1 DEF StagesOK, Calls
<1>4. call # Undefined => call' # Undefined
    <2>1. call # Undefined => [call EXCEPT !.replaced = TRUE] \in Calls
        BY <1>1 DEF StagesOK, Calls
    <2> QED
        BY <2>1, PartsAssumption DEF PartsAssumption
<1>5. Settling' <=> Settling
    BY <1>3, <1>4 DEF Settling
<1>6. StagesOK'
    BY <1>1, <1>2, <1>3, <1>4, <1>5 DEF StagesOK
<1>7. SearchOK'
    BY <1>1 DEF SearchOK
<1>8. PinnedCall' => PinnedCall /\ PinnedBlock' = PinnedBlock
    <2> SUFFICES ASSUME PinnedCall'
                 PROVE  PinnedCall /\ PinnedBlock' = PinnedBlock
        OBVIOUS
    <2>1. /\ call' # Undefined /\ call # Undefined
          /\ call'.block = call.block /\ call'.final = call.final
        BY <1>3 DEF PinnedCall
    <2>2. PinnedCall
        BY <2>1 DEF PinnedCall
    <2>3. call.block.number \in 0 .. final
        BY <1>2, <1>3, <2>1, <2>2 DEF PinnedCall, Pinned
    <2>4. chain'[call.block.number + 1] = chain[call.block.number + 1]
        BY <1>1, <2>3, FinalStays
    <2> QED
        BY <2>1, <2>2, <2>4 DEF PinnedBlock
<1>9. EntriesPinned'
    BY <1>1, <1>8 DEF EntriesPinned, IsPinned, Runtime
<1>10. PartiesPinned'
    <2> SUFFICES ASSUME PinnedCall', call'.kind \in WithParties
                 PROVE  PartiesPinned'
        BY DEF PartiesPinned
    <2>1. /\ PinnedCall /\ PinnedBlock' = PinnedBlock
          /\ call'.kind = call.kind
        BY <1>3, <1>8 DEF PinnedCall
    <2>2. First' = First
        BY <2>1 DEF First, Plan
    <2>3. \A p : Party(parts, p)' = Party(parts, p)
        BY <2>2 DEF Party
    <2> QED
        BY <1>1, <2>1, <2>3 DEF PartiesPinned, Runtime
<1>11. PartsRead'
    <2> SUFFICES ASSUME Settling
                 PROVE  PartsRead'
        BY <1>5 DEF PartsRead
    <2>1. /\ call'.kind = call.kind /\ call'.ref = call.ref
          /\ ~call'.replaced => ~call.replaced
        BY <1>3, <1>4 DEF Settling
    <2>2. /\ First' = First /\ Link(parts)' = Link(parts)
          /\ Party(parts, stage)' = Party(parts, stage)
        BY <2>1 DEF First, Link, Party
    <2>3. Whole(parts) => Whole(parts)'
        BY <2>1 DEF Whole, Settled, Given
    <2> QED
        BY <1>1, <2>1, <2>2, <2>3 DEF PartsRead, Given
<1>12. StillSettled'
    <2> SUFFICES ASSUME Settling, ~call'.replaced
                 PROVE  StillSettled'
        BY <1>5 DEF StillSettled
    <2>1. call' = call /\ call \in Calls
        BY <1>3, <1>4 DEF Settling
    <2>2. \A r \in Refs : Tip.receipts[r] = "settled" =>
                           Tip'.receipts[r] = "settled"
        <3>1. CASE call' = [call EXCEPT !.replaced = TRUE]
            BY <2>1, <3>1 DEF Calls
        <3> QED
            BY <2>1, <3>1 DEF Settling
    <2>3. /\ parts.receipt # Undefined => parts.receipt.ref \in Refs
          /\ parts.effect # Undefined => parts.effect.receipt \in Refs
        BY <1>1 DEF StagesOK, Parts, Receipts, Effects, ReceiptOf, EffectOf
    <2> QED
        BY <1>1, <2>1, <2>2, <2>3 DEF StillSettled, SettledIn, Settled, Given
<1>13. ReadRepeats'
    <2> DEFINE meant(c) == SubSeq(c, observed.from.number + 1,
                                  observed.to.number + 1)
    <2>1. observed' = observed
        OBVIOUS
    <2>2. observed # Undefined =>
            observed.final \in Nat /\ observed.final <= final /\ FinalReadsRepeat
        BY <1>1 DEF ReadRepeats
    <2>3. ASSUME observed # Undefined,
                 Pinned(observed.from, observed.final),
                 Pinned(observed.to, observed.final)
          PROVE  observed.ids = [i \in DOMAIN meant(chain') |-> meant(chain')[i].id]
        <3>1. /\ observed.from.number \in 0 .. final
              /\ observed.to.number \in 0 .. final
            BY <1>2, <2>2, <2>3 DEF Pinned
        <3>2. meant(chain') = meant(chain)
            BY <1>1, <3>1, FinalStays
        <3>3. observed.ids = [i \in DOMAIN meant(chain) |-> meant(chain)[i].id]
            BY <2>2, <2>3 DEF FinalReadsRepeat
        <3> QED
            BY <3>2, <3>3
    <2>4. FinalReadsRepeat'
        BY <2>1, <2>3 DEF FinalReadsRepeat, Pinned, Client!IsNumber
    <2> HIDE DEF meant
    <2> QED
        BY <1>2, <2>1, <2>2, <2>4 DEF ReadRepeats
<1> QED
    BY <1>6, <1>7, <1>9, <1>10, <1>11, <1>12, <1>13 DEF IInv

-----------------------------------------------------------------------------
(***************************************************************************)
(* The plan of a settlement.                                               *)
(***************************************************************************)
\* The second part of a plan.
Second == IF First = "receipt" THEN "effect" ELSE "receipt"

\* A plan has two parts, then both parties if any.
LEMMA PlanFacts ==
    ASSUME Settling
    PROVE  /\ \/ Plan[call.kind] = <<First, Second, "sender", "recipient">>
              \/ Plan[call.kind] = <<First, Second>>
           /\ First \in {"receipt", "effect"}
           /\ call.kind \in WithParties =>
                Plan[call.kind] = <<First, Second, "sender", "recipient">>
BY DEF Settling, Plan, First, Second, WithParties

\* The call goes on to the next part it needs, and it needs none of those in
\* between.
LEMMA FoundEffect ==
    ASSUME Settling, stage \in SettlementStages, parts \in Parts, NEW part,
           Found(part), NEW found, found = [parts EXCEPT ![stage] = part]
    PROVE  /\ parts' = found
           /\ stage = First =>
                \/ stage' = Second /\ Given(Link(found))
                \/ stage' \in {"sender", "recipient", "done"} /\ ~Given(Link(found))
           /\ stage # First => stage' \in {"sender", "recipient", "done"}
           /\ stage = "sender" => stage' # "sender"
           /\ stage = "recipient" => stage' = "done"
           /\ stage' \in {"sender", "recipient"} =>
                Party(found, stage') # Undefined
           /\ call.kind \in WithParties =>
                /\ stage' \in {"recipient", "done"} /\ stage \in {First, Second} =>
                    Party(found, "sender") = Undefined
                /\ stage' = "done" /\ stage # "recipient" =>
                    Party(found, "recipient") = Undefined
<1> DEFINE plan == Plan[call.kind]
           later == {i \in DOMAIN plan : /\ \E j \in 1 .. i - 1 : plan[j] = stage
                                         /\ Needed(plan[i], found)}
<1>1. /\ parts' = found
      /\ stage' = IF later = {} THEN "done"
                  ELSE plan[CHOOSE i \in later : \A j \in later : i <= j]
    BY DEF Found
<1>2. later = {} \/ \E i \in later : stage' = plan[i] /\ \A j \in later : i <= j
    <2> SUFFICES ASSUME later # {}
                 PROVE  \E i \in later : stage' = plan[i] /\ \A j \in later : i <= j
        OBVIOUS
    <2>1. later \subseteq Nat
        BY PlanFacts
    <2> HIDE DEF later
    <2>2. \E i \in later : \A j \in later : i <= j
        BY <2>1, LeastNumber
    <2> QED
        BY <1>1, <2>2
<1>3. \A i \in DOMAIN plan :
        i \in later <=> /\ \E j \in 1 .. i - 1 : plan[j] = stage
                       /\ Needed(plan[i], found)
    OBVIOUS
<1>4. later \subseteq DOMAIN plan
    OBVIOUS
<1> HIDE DEF later
<1>5. /\ Needed(Second, found) <=> Given(Link(found))
      /\ Needed("sender", found) <=> Party(found, "sender") # Undefined
      /\ Needed("recipient", found) <=> Party(found, "recipient") # Undefined
    BY PlanFacts DEF Needed, Second
<1>6. First # Second /\ First \in {"receipt", "effect"} /\ Second \in {"receipt", "effect"}
    BY PlanFacts DEF Second
<1>7. CASE plan = <<First, Second>>
    <2>1. DOMAIN plan = {1, 2} /\ plan[1] = First /\ plan[2] = Second
        BY <1>7
    <2>2. 1 \notin later /\ (2 \in later <=> stage = First /\ Given(Link(found)))
        BY <1>3, <1>5, <1>6, <2>1
    <2>3. call.kind \notin WithParties
        BY <1>7, PlanFacts
    <2> HIDE DEF plan
    <2>4. CASE later = {}
        BY <1>1, <1>6, <2>2, <2>3, <2>4 DEF SettlementStages
    <2>5. CASE later # {}
        BY <1>1, <1>2, <1>4, <1>6, <2>1, <2>2, <2>3, <2>5 DEF SettlementStages
    <2> QED
        BY <2>4, <2>5
<1>8. CASE plan = <<First, Second, "sender", "recipient">>
    <2>1. /\ DOMAIN plan = {1, 2, 3, 4} /\ plan[1] = First /\ plan[2] = Second
          /\ plan[3] = "sender" /\ plan[4] = "recipient"
        BY <1>8
    <2>2. /\ 1 \notin later
          /\ 2 \in later <=> stage = First /\ Given(Link(found))
          /\ 3 \in later <=> /\ stage \in {First, Second}
                            /\ Party(found, "sender") # Undefined
          /\ 4 \in later <=> /\ stage \in {First, Second, "sender"}
                            /\ Party(found, "recipient") # Undefined
        BY <1>3, <1>5, <1>6, <2>1
    <2> HIDE DEF plan
    <2>3. CASE later = {}
        BY <1>1, <1>6, <2>2, <2>3 DEF SettlementStages
    <2>4. ASSUME later # {}
          PROVE  \/ 2 \in later /\ stage' = Second
                 \/ 2 \notin later /\ 3 \in later /\ stage' = "sender"
                 \/ 2 \notin later /\ 3 \notin later /\ 4 \in later /\ stage' = "recipient"
        BY <1>2, <1>4, <2>1, <2>2, <2>4
    <2>5. CASE later # {}
        BY <1>1, <1>6, <2>2, <2>4, <2>5 DEF SettlementStages
    <2> QED
        BY <2>3, <2>5
<1> QED
    BY <1>7, <1>8, PlanFacts

\* Different receipts have different settlements; neither is the empty
\* reference.
LEMMA References ==
    /\ \A r, q \in Refs : SettlementOf(r) = SettlementOf(q) => r = q
    /\ \A r \in Refs : Given(SettlementOf(r))
<1>1. ASSUME NEW r \in Refs
      PROVE  /\ r \in Seq(STRING) /\ Len(r) \in Nat
             /\ Len(SettlementOf(r)) = Len(r) + 1
             /\ \A i \in 1 .. Len(r) : SettlementOf(r)[i + 1] = r[i]
    <2> DEFINE any == STRING \cup {"settlement"}
    <2>1. r \in Seq(STRING)
        BY RuntimeAssumption DEF RuntimeAssumption
    <2>2. r \in Seq(any) /\ <<"settlement">> \in Seq(any)
        BY <2>1
    <2> HIDE DEF any
    <2> QED
        BY <2>1, <2>2 DEF SettlementOf
<1>2. ASSUME NEW r \in Refs, NEW q \in Refs, SettlementOf(r) = SettlementOf(q)
      PROVE  r = q
    <2>1. Len(r) = Len(q)
        BY <1>1, <1>2
    <2>2. \A i \in 1 .. Len(r) : r[i] = q[i]
        BY <1>1, <1>2, <2>1
    <2> QED
        BY <1>1, <2>1, <2>2
<1>3. ASSUME NEW r \in Refs
      PROVE  Given(SettlementOf(r))
    <2>1. Len(SettlementOf(r)) # 0
        BY <1>1
    <2> QED
        BY <2>1, PartsAssumption DEF PartsAssumption, Given, NoRef
<1> QED
    BY <1>2, <1>3

\* What is found of a receipt: it is the one asked for, and it is settled if
\* and only if it says so or its block does.
LEMMA ReceiptFacts ==
    ASSUME ChainOK, NEW r \in Refs, NEW receipt \in ReceiptIn(Tip, r)
    PROVE  /\ receipt \in Receipts \cup {Undefined}
           /\ receipt # Undefined =>
                /\ receipt.ref = r
                /\ Settled(receipt) <=> Tip.receipts[r] = "settled"
                /\ Settled(receipt) => receipt.settlement = SettlementOf(r)
           /\ Tip.receipts[r] = "settled" => receipt # Undefined
<1>1. /\ SettlementOf(r) # Undefined /\ Given(SettlementOf(r))
      /\ \A s \in {SettlementOf(r), Undefined, NoRef} : ReceiptOf(r, s) # Undefined
    BY PartsAssumption, References DEF PartsAssumption
<1>2. ~Given(Undefined) /\ ~Given(NoRef)
    BY DEF Given
<1>3. CASE Tip.receipts[r] = "none"
    BY <1>3 DEF ReceiptIn
<1>4. CASE Tip.receipts[r] = "settled"
    <2>1. receipt = ReceiptOf(r, SettlementOf(r))
        BY <1>4 DEF ReceiptIn
    <2>2. receipt.ref = r /\ receipt.settlement = SettlementOf(r)
        BY <2>1 DEF ReceiptOf
    <2>3. receipt \in Receipts
        BY <2>1 DEF Receipts
    <2> QED
        BY <1>1, <1>4, <2>1, <2>2, <2>3 DEF Settled
<1>5. CASE Tip.receipts[r] \notin {"none", "settled"}
    <2>1. PICK s \in {Undefined, NoRef} : receipt = ReceiptOf(r, s)
        BY <1>5 DEF ReceiptIn
    <2>2. receipt.ref = r /\ receipt.settlement = s
        BY <2>1 DEF ReceiptOf
    <2>3. receipt \in Receipts
        BY <2>1 DEF Receipts
    <2> QED
        BY <1>1, <1>2, <1>5, <2>1, <2>2, <2>3 DEF Settled
<1> QED
    BY <1>3, <1>4, <1>5

\* What is found of the effect of a receipt: it is that receipt's, and it is
\* there if and only if the receipt is settled.
LEMMA EffectFacts ==
    ASSUME NEW r \in Refs, NEW effect \in EffectIn(Tip, SettlementOf(r))
    PROVE  /\ effect \in Effects \cup {Undefined}
           /\ effect # Undefined <=> Tip.receipts[r] = "settled"
           /\ effect # Undefined =>
                effect.ref = SettlementOf(r) /\ effect.receipt = r
<1> DEFINE settled == {q \in Refs : /\ SettlementOf(q) = SettlementOf(r)
                                    /\ Tip.receipts[q] = "settled"}
<1>1. settled = IF Tip.receipts[r] = "settled" THEN {r} ELSE {}
    BY References
<1>2. effect \in IF settled = {} THEN {Undefined}
                  ELSE {EffectOf(q) : q \in settled}
    BY DEF EffectIn
<1> HIDE DEF settled
<1>3. CASE Tip.receipts[r] = "settled"
    <2>1. effect = EffectOf(r)
        BY <1>1, <1>2, <1>3
    <2>2. effect.ref = SettlementOf(r) /\ effect.receipt = r
        BY <2>1 DEF EffectOf
    <2>3. effect # Undefined /\ effect \in Effects
        BY <2>1, PartsAssumption DEF PartsAssumption, Effects
    <2> QED
        BY <1>3, <2>2, <2>3
<1>4. CASE Tip.receipts[r] # "settled"
    BY <1>1, <1>2, <1>4
<1> QED
    BY <1>3, <1>4

-----------------------------------------------------------------------------
(***************************************************************************)
(* The steps of a settlement.                                              *)
(***************************************************************************)
\* A call that is rejected keeps what it has.
LEMMA RejectStep ==
    ASSUME IInv, stage' = "rejected",
           UNCHANGED <<chainVars, call, parts, results, card, entries, observed>>
    PROVE  IInv'
<1>1. ChainOK' /\ SearchOK' /\ StagesOK'
    BY DEF IInv, ChainOK, SearchOK, StagesOK, Settling, SettlementStages,
           SearchStages, chainVars
<1>2. EntriesPinned' /\ PartiesPinned'
    BY DEF IInv, EntriesPinned, IsPinned, PartiesPinned, PinnedCall, PinnedBlock, Pinned,
           Client!IsNumber, Runtime, chainVars
<1>3. PartsRead' /\ StillSettled'
    BY PlanFacts DEF IInv, PartsRead, StillSettled, SettledIn, Settled, Given,
        Party, Settling, Tip, First, Plan, chainVars
<1>4. ReadRepeats'
    BY DEF IInv, ReadRepeats, FinalReadsRepeat, Pinned, Client!IsNumber, chainVars
<1> QED
    BY <1>1, <1>2, <1>3, <1>4 DEF IInv

\* The frame of a settlement's step: what is not the call's parts stays.
LEMMA SettlementFrame ==
    ASSUME IInv, Settling, stage \in SettlementStages,
           UNCHANGED <<chainVars, call, results, card, entries, observed>>,
           stage' \in SettlementStages \cup {"done"}, parts' \in Parts
    PROVE  /\ ChainOK' /\ StagesOK' /\ SearchOK' /\ EntriesPinned' /\ ReadRepeats'
           /\ Settling' /\ First' = First /\ Tip' = Tip
           /\ PinnedCall' = PinnedCall /\ PinnedBlock' = PinnedBlock
<1>1. ChainOK' /\ SearchOK' /\ StagesOK' /\ Settling'
    BY DEF IInv, ChainOK, SearchOK, StagesOK, Settling, SettlementStages,
           SearchStages, chainVars
<1>2. /\ PinnedCall' = PinnedCall /\ PinnedBlock' = PinnedBlock
      /\ First' = First /\ Tip' = Tip
    BY DEF PinnedCall, PinnedBlock, Pinned, Client!IsNumber, First, Plan, Tip,
           chainVars
<1>3. EntriesPinned'
    BY <1>2 DEF IInv, EntriesPinned, IsPinned, Runtime
<1>4. ReadRepeats'
    BY DEF IInv, ReadRepeats, FinalReadsRepeat, Pinned, Client!IsNumber, chainVars
<1> QED
    BY <1>1, <1>2, <1>3, <1>4

\* A receipt or an effect is read, and fits what was read before.
LEMMA PartStep ==
    ASSUME IInv, stage \in {"receipt", "effect"}, NEW part, Found(part),
           part \in (IF stage = "receipt" THEN Receipts ELSE Effects) \cup {Undefined},
           stage = First => part # Undefined /\ part.ref = call.ref,
           NEW found, found = [parts EXCEPT ![stage] = part],
           (stage = First /\ Given(Link(found))) \/ Whole(found),
           ~call.replaced => SettledIn(Tip, found)
    PROVE  IInv'
<1>1. /\ Settling /\ stage \in SettlementStages /\ parts \in Parts /\ StagesOK
      /\ PartsRead
    BY DEF IInv, StagesOK, SettlementStages
<1>2. /\ parts' = found
      /\ stage = First =>
           \/ stage' = Second /\ Given(Link(found))
           \/ stage' \in {"sender", "recipient", "done"} /\ ~Given(Link(found))
      /\ stage # First => stage' \in {"sender", "recipient", "done"}
      /\ stage' \in {"sender", "recipient"} => Party(found, stage') # Undefined
    BY <1>1, FoundEffect
<1>3. First \in {"receipt", "effect"} /\ Second \in {"receipt", "effect"} /\ Second # First
    BY <1>1, PlanFacts DEF Second
<1>4. found \in Parts
    BY <1>1 DEF Parts
<1>5. UNCHANGED <<chainVars, call, results, card, entries, observed>>
    BY DEF Found
<1>6. stage' \in SettlementStages \cup {"done"}
    BY <1>2, <1>3 DEF SettlementStages
<1>7. /\ ChainOK' /\ StagesOK' /\ SearchOK' /\ EntriesPinned' /\ ReadRepeats'
      /\ Settling' /\ First' = First /\ Tip' = Tip
      /\ PinnedCall' = PinnedCall /\ PinnedBlock' = PinnedBlock
    BY <1>1, <1>2, <1>4, <1>5, <1>6, SettlementFrame
<1>8. found[First] # Undefined /\ found[First].ref = call.ref
    <2>1. CASE stage = First
        BY <1>1, <2>1 DEF Parts
    <2>2. CASE stage # First
        BY <1>1, <1>3, <2>2 DEF Parts, PartsRead
    <2> QED
        BY <2>1, <2>2
<1>9. PartsRead'
    <2>1. IF First = "receipt" THEN call'.ref \in Refs
          ELSE call'.ref \in {SettlementOf(r) : r \in Refs}
        BY <1>1, <1>5 DEF PartsRead
    <2>2. stage' # First
        BY <1>2, <1>3
    <2>3. ASSUME stage' \in {"receipt", "effect"}
          PROVE  parts'[stage'] = Undefined /\ Given(Link(found))
        <3>1. stage = First /\ stage' = Second /\ Given(Link(found))
            BY <1>2, <1>3, <2>3
        <3>2. parts = NoParts
            BY <1>1, <3>1 DEF PartsRead
        <3> QED
            BY <1>2, <1>3, <3>1, <3>2 DEF NoParts
    <2>4. stage' \in {"sender", "recipient", "done"} => Whole(found)
        BY <1>2, <1>3
    <2>5. /\ Link(parts)' = Link(found) /\ (Whole(found) => Whole(parts)')
          /\ Party(parts, stage)' = Party(found, stage')
        BY <1>2, <1>5, <1>7 DEF Link, Whole, Party
    <2> QED
        BY <1>2, <1>5, <1>7, <1>8, <2>1, <2>2, <2>3, <2>4, <2>5 DEF PartsRead, Given
<1>10. StillSettled'
    BY <1>2, <1>5, <1>7 DEF StillSettled, SettledIn, Settled, Given
<1>11. PartiesPinned'
    <2> SUFFICES ASSUME call.kind \in WithParties, PinnedCall
                 PROVE  PartiesPinned'
        BY <1>5, <1>7 DEF PartiesPinned
    <2>1. /\ stage' \in {"recipient", "done"} => Party(found, "sender") = Undefined
          /\ stage' = "done" => Party(found, "recipient") = Undefined
        BY <1>1, <1>3, FoundEffect
    <2>2. \A p : Party(parts, p)' = Party(found, p)
        BY <1>2, <1>5, <1>7 DEF Party
    <2> QED
        BY <1>2, <2>1, <2>2 DEF PartiesPinned
<1> QED
    BY <1>7, <1>9, <1>10, <1>11 DEF IInv

\* The answer with a receipt.
LEMMA ReceiptAnsweredStep ==
    ASSUME IInv, ReceiptAnswered
    PROVE  IInv'
<1>1. PICK part \in ReceiptIn(Tip, RefOf) : Settle(part)
    BY DEF ReceiptAnswered
<1>2. /\ stage = "receipt" /\ Settling /\ parts \in Parts /\ ChainOK
      /\ PartsRead /\ StillSettled
    BY DEF ReceiptAnswered, IInv, StagesOK, SettlementStages
<1>3. CASE stage = First /\ part = Undefined
    BY <1>1, <1>3, RejectStep DEF Settle
<1>4. CASE stage = First /\ part # Undefined
    <2> DEFINE found == [parts EXCEPT ![stage] = part]
    <2>1. Found(part)
        BY <1>1, <1>4 DEF Settle
    <2>2. call.ref \in Refs /\ RefOf = call.ref /\ parts = NoParts
        BY <1>2, <1>4 DEF PartsRead, RefOf
    <2>3. /\ part \in Receipts \cup {Undefined} /\ part.ref = call.ref
          /\ Settled(part) => Tip.receipts[part.ref] = "settled"
        BY <1>1, <1>2, <1>4, <2>2, ReceiptFacts
    <2>4. found.receipt = part /\ found.effect = Undefined
        BY <1>2, <2>2 DEF NoParts
    <2>5. (stage = First /\ Given(Link(found))) \/ Whole(found)
        BY <1>2, <1>4, <2>4 DEF Whole, Link, Settled
    <2>6. SettledIn(Tip, found)
        BY <2>3, <2>4 DEF SettledIn
    <2> HIDE DEF found
    <2>7. found = [parts EXCEPT ![stage] = part]
        BY DEF found
    <2> QED
        BY <1>2, <1>4, <2>1, <2>3, <2>5, <2>6, <2>7, PartStep
<1>5. CASE stage # First
    <2> DEFINE found == [parts EXCEPT ![stage] = part]
               effect == parts.effect
    <2>1. Found(part)
        BY <1>1, <1>5 DEF Settle
    <2>2. First = "effect"
        BY <1>2, <1>5, PlanFacts
    <2>3. effect # Undefined /\ effect \in Effects /\ Link(parts) = effect.receipt
        BY <1>2, <2>2 DEF PartsRead, Parts, Link
    <2>4. effect.receipt \in Refs /\ effect.ref = SettlementOf(effect.receipt)
        BY <2>3 DEF Effects, EffectOf
    <2>5. RefOf = effect.receipt
        BY <1>5, <2>3 DEF RefOf
    <2>6. /\ part \in Receipts \cup {Undefined}
          /\ part # Undefined =>
               /\ part.ref = effect.receipt
               /\ Settled(part) <=> Tip.receipts[effect.receipt] = "settled"
               /\ Settled(part) => part.settlement = effect.ref
          /\ Tip.receipts[effect.receipt] = "settled" => part # Undefined
        BY <1>1, <1>2, <2>4, <2>5, ReceiptFacts
    <2>7. found.receipt = part /\ found.effect = effect
        BY <1>2 DEF Parts
    <2>8. ~call.replaced => Tip.receipts[effect.receipt] = "settled"
        BY <1>2, <2>3 DEF StillSettled, SettledIn
    <2> HIDE DEF found, effect
    <2>9. Whole(found)
        BY <2>3, <2>6, <2>7, <2>8 DEF Whole, Settled
    <2>10. ~call.replaced => SettledIn(Tip, found)
        BY <2>3, <2>6, <2>7, <2>8 DEF SettledIn, Settled
    <2>11. found = [parts EXCEPT ![stage] = part]
        BY DEF found
    <2> QED
        BY <1>2, <1>5, <2>1, <2>6, <2>9, <2>10, <2>11, PartStep
<1> QED
    BY <1>3, <1>4, <1>5

\* The answer with a settlement's effect.
LEMMA EffectAnsweredStep ==
    ASSUME IInv, EffectAnswered
    PROVE  IInv'
<1>1. PICK part \in EffectIn(Tip, RefOf) : Settle(part)
    BY DEF EffectAnswered
<1>2. /\ stage = "effect" /\ Settling /\ parts \in Parts /\ ChainOK
      /\ PartsRead /\ StillSettled
    BY DEF EffectAnswered, IInv, StagesOK, SettlementStages
<1>3. CASE stage = First /\ part = Undefined
    BY <1>1, <1>3, RejectStep DEF Settle
<1>4. CASE stage = First /\ part # Undefined
    <2> DEFINE found == [parts EXCEPT ![stage] = part]
    <2>1. Found(part)
        BY <1>1, <1>4 DEF Settle
    <2>2. RefOf = call.ref /\ parts = NoParts
        BY <1>2, <1>4 DEF PartsRead, RefOf
    <2>3. PICK r \in Refs : call.ref = SettlementOf(r)
        BY <1>2, <1>4 DEF PartsRead
    <2>4. /\ part \in Effects \cup {Undefined} /\ part.ref = call.ref
          /\ part.receipt = r /\ Tip.receipts[r] = "settled"
        BY <1>1, <1>4, <2>2, <2>3, EffectFacts
    <2>5. found.effect = part /\ found.receipt = Undefined
        BY <1>2, <2>2 DEF NoParts
    <2>6. Given(Link(found)) \/ ~Given(part.receipt)
        BY <1>2, <1>4, <2>5 DEF Link
    <2>7. Given(part.receipt)
        BY <2>4, RuntimeAssumption DEF RuntimeAssumption, Given, NoRef
    <2>8. SettledIn(Tip, found)
        BY <2>4, <2>5 DEF SettledIn, Settled
    <2> HIDE DEF found
    <2>9. found = [parts EXCEPT ![stage] = part]
        BY DEF found
    <2> QED
        BY <1>2, <1>4, <2>1, <2>4, <2>6, <2>7, <2>8, <2>9, PartStep
<1>5. CASE stage # First
    <2> DEFINE found == [parts EXCEPT ![stage] = part]
               receipt == parts.receipt
    <2>1. Found(part)
        BY <1>1, <1>5 DEF Settle
    <2>2. First = "receipt"
        BY <1>2, <1>5, PlanFacts
    <2>3. /\ receipt # Undefined /\ receipt \in Receipts
          /\ Link(parts) = receipt.settlement /\ Given(receipt.settlement)
        BY <1>2, <1>5, <2>2 DEF PartsRead, Parts, Link
    <2>4. receipt.ref \in Refs /\ receipt.settlement = SettlementOf(receipt.ref)
        BY <2>3 DEF Receipts, ReceiptOf, Given
    <2>5. RefOf = SettlementOf(receipt.ref)
        BY <1>5, <2>3, <2>4 DEF RefOf
    <2>6. /\ part \in Effects \cup {Undefined}
          /\ part # Undefined <=> Tip.receipts[receipt.ref] = "settled"
          /\ part # Undefined =>
               part.ref = receipt.settlement /\ part.receipt = receipt.ref
        BY <1>1, <2>4, <2>5, EffectFacts
    <2>7. found.effect = part /\ found.receipt = receipt
        BY <1>2 DEF Parts
    <2>8. ~call.replaced => Tip.receipts[receipt.ref] = "settled"
        BY <1>2, <2>3 DEF StillSettled, SettledIn, Settled
    <2> HIDE DEF found, receipt
    <2>9. Whole(found)
        BY <2>3, <2>6, <2>7, <2>8 DEF Whole, Settled
    <2>10. ~call.replaced => SettledIn(Tip, found)
        BY <2>3, <2>6, <2>7, <2>8 DEF SettledIn, Settled
    <2>11. found = [parts EXCEPT ![stage] = part]
        BY DEF found
    <2> QED
        BY <1>2, <1>5, <2>1, <2>6, <2>9, <2>10, <2>11, PartStep
<1> QED
    BY <1>3, <1>4, <1>5

\* The runtime of a contract: a surface, with the address it is asked for.
LEMMA RuntimeFacts ==
    ASSUME NEW block \in Blocks, NEW a \in Addresses
    PROVE  /\ Runtime(block, a) \in Surfaces
           /\ Runtime(block, a) # Undefined => Runtime(block, a).address = a
<1>1. block.code[a] \in Codes \cup {Undefined}
    BY DEF Blocks
<1>2. CASE block.code[a] = Undefined
    BY <1>2 DEF Runtime, Surfaces
<1>3. CASE block.code[a] # Undefined
    <2> DEFINE c == block.code[a]
               info == [c EXCEPT !.address = a]
    <2>1. c \in Codes \ {Undefined} /\ "address" \in DOMAIN c
        BY <1>1, <1>3, RuntimeAssumption DEF RuntimeAssumption
    <2>2. info.address = a
        BY <2>1
    <2>3. Runtime(block, a) = NormalizeRuntime(info)
        BY <1>3 DEF Runtime
    <2>4. NormalizeRuntime(info) \in Surfaces
        BY <2>1 DEF Surfaces
    <2>5. NormalizeRuntime(info).address = a
        BY <2>2 DEF NormalizeRuntime
    <2> QED
        BY <2>3, <2>4, <2>5
<1> QED
    BY <1>2, <1>3

\* The block contracts are read at: the one the call is pinned to, if it is.
LEMMA MetadataFacts ==
    ASSUME ChainOK, Known(MetadataBlock),
           call # Undefined => call.final \in Nat /\ call.final <= final
    PROVE  /\ BlockAt(MetadataBlock) \in Blocks
           /\ PinnedCall => BlockAt(MetadataBlock) = PinnedBlock
<1>1. BlockAt(MetadataBlock) \in Blocks
    <2>1. NumberOf(MetadataBlock) + 1 \in 1 .. Len(chain)
        BY ChainFacts DEF Known
    <2> QED
        BY <2>1, ChainFacts DEF BlockAt
<1>2. ASSUME PinnedCall
      PROVE  BlockAt(MetadataBlock) = PinnedBlock
    <2>1. MetadataBlock = [quantity |-> call.block.number]
        BY <1>2, MetadataNumberIsRead DEF PinnedCall
    <2>2. call.block.number \in Nat
        BY <1>2 DEF PinnedCall, Pinned
    <2> QED
        BY <2>1, <2>2, QuantityIsNumber DEF BlockAt, PinnedBlock
<1> QED
    BY <1>1, <1>2

\* The answer with a party's contract.
LEMMA PartyAnsweredStep ==
    ASSUME IInv, PartyAnswered
    PROVE  IInv'
<1> DEFINE part == Runtime(BlockAt(MetadataBlock), Party(parts, stage))
           found == [parts EXCEPT ![stage] = part]
<1>1. /\ stage \in {"sender", "recipient"} /\ Known(MetadataBlock) /\ Found(part)
    BY DEF PartyAnswered
<1>2. /\ Settling /\ stage \in SettlementStages /\ parts \in Parts /\ ChainOK
      /\ PartsRead /\ StillSettled /\ PartiesPinned
      /\ call.final \in Nat /\ call.final <= final
    BY <1>1 DEF IInv, StagesOK, SettlementStages, Settling, Calls
<1>3. First \in {"receipt", "effect"} /\ Second \in {"receipt", "effect"} /\ Second # First
    BY <1>2, PlanFacts DEF Second
<1>4. /\ parts[First] # Undefined /\ parts[First].ref = call.ref
      /\ Party(parts, stage) # Undefined /\ Whole(parts)
    BY <1>1, <1>2, <1>3 DEF PartsRead
<1>5. Party(parts, stage) \in Addresses
    <2>1. parts[First] \in Receipts \cup Effects
        BY <1>2, <1>3, <1>4 DEF Parts
    <2>2. PICK r \in Refs : /\ parts[First].sender = SenderOf[r]
                            /\ parts[First].recipient = RecipientOf[r]
        BY <2>1 DEF Receipts, Effects, ReceiptOf, EffectOf
    <2>3. Party(parts, stage) \in Addresses \cup {Undefined}
        BY <1>1, <2>2, RuntimeAssumption DEF Party, RuntimeAssumption
    <2> QED
        BY <1>4, <2>3
<1>6. /\ BlockAt(MetadataBlock) \in Blocks
      /\ PinnedCall => BlockAt(MetadataBlock) = PinnedBlock
    BY <1>1, <1>2, MetadataFacts
<1>7. part \in Surfaces
    BY <1>5, <1>6, RuntimeFacts
<1>8. PinnedCall => part = Runtime(PinnedBlock, Party(parts, stage))
    BY <1>6
<1> HIDE DEF part
<1>9. found \in Parts /\ found.receipt = parts.receipt /\ found.effect = parts.effect
    BY <1>1, <1>2, <1>7 DEF Parts
<1>10. /\ found[First] = parts[First]
       /\ \A p : Party(found, p) = Party(parts, p)
    BY <1>3, <1>9 DEF Party
<1> HIDE DEF found
<1>11. found = [parts EXCEPT ![stage] = part]
    BY DEF found
<1>12. /\ parts' = found
       /\ stage' \in {"sender", "recipient", "done"}
       /\ stage = "sender" => stage' # "sender"
       /\ stage = "recipient" => stage' = "done"
       /\ stage' \in {"sender", "recipient"} => Party(found, stage') # Undefined
       /\ call.kind \in WithParties =>
            (stage' = "done" /\ stage # "recipient" =>
                Party(found, "recipient") = Undefined)
    BY <1>1, <1>2, <1>3, <1>11, FoundEffect
<1>13. UNCHANGED <<chainVars, call, results, card, entries, observed>>
    BY <1>1 DEF Found
<1>14. stage' \in SettlementStages \cup {"done"}
    BY <1>12 DEF SettlementStages
<1>15. /\ ChainOK' /\ StagesOK' /\ SearchOK' /\ EntriesPinned' /\ ReadRepeats'
       /\ Settling' /\ First' = First /\ Tip' = Tip
       /\ PinnedCall' = PinnedCall /\ PinnedBlock' = PinnedBlock
    BY <1>2, <1>9, <1>12, <1>13, <1>14, SettlementFrame
<1>16. PartsRead'
    <2>1. Whole(parts)'
        BY <1>4, <1>9, <1>12, <1>13 DEF Whole
    <2>2. Party(parts, stage)' = Party(found, stage')
        BY <1>12, <1>15 DEF Party
    <2> QED
        BY <1>2, <1>3, <1>4, <1>10, <1>12, <1>13, <1>15, <2>1, <2>2 DEF PartsRead
<1>17. StillSettled'
    BY <1>2, <1>9, <1>12, <1>13, <1>15 DEF StillSettled, SettledIn
<1>18. PartiesPinned'
    <2> SUFFICES ASSUME call.kind \in WithParties, PinnedCall
                 PROVE  PartiesPinned'
        BY <1>13, <1>15 DEF PartiesPinned
    <2>1. \A p : Party(parts, p)' = Party(parts, p)
        BY <1>9, <1>10, <1>12, <1>15 DEF Party
    <2>3. CASE stage = "sender"
        <3>1. found.sender = Runtime(PinnedBlock, Party(parts, "sender"))
            BY <1>2, <1>8, <1>11, <2>3 DEF Parts
        <3>2. stage' = "done" => Party(parts, "recipient") = Undefined
            BY <1>10, <1>12, <2>3
        <3> QED
            BY <1>9, <1>12, <1>15, <2>1, <3>1, <3>2 DEF PartiesPinned
    <2>4. CASE stage = "recipient"
        <3>1. /\ found.recipient = Runtime(PinnedBlock, Party(parts, "recipient"))
              /\ found.sender = parts.sender
            BY <1>2, <1>8, <1>11, <2>4 DEF Parts
        <3>2. Party(parts, "sender") # Undefined =>
                parts.sender = Runtime(PinnedBlock, Party(parts, "sender"))
            BY <1>2, <2>4 DEF PartiesPinned
        <3> QED
            BY <1>9, <1>12, <1>15, <2>1, <3>1, <3>2 DEF PartiesPinned
    <2> QED
        BY <1>1, <2>3, <2>4
<1> QED
    BY <1>15, <1>16, <1>17, <1>18 DEF IInv

-----------------------------------------------------------------------------
(***************************************************************************)
(* The steps of a search.                                                  *)
(***************************************************************************)
\* What is selected of entries.
Selection(es, prefs) ==
    [chosen |-> SelectSurface(RankSurfaces(es), prefs),
     diagnostics |-> DiagnoseSurfaces(es, prefs)]

\* The results after those joined are joined, up to one that has a record or
\* to the last; those joined here have no runtime.  After the last one, the
\* choice.
LEMMA JoinEffect ==
    ASSUME NEW joined \in Seq(Entries), NEW of \in Seq(Results),
           Len(joined) <= Len(of), Join(joined, of)
    PROVE  /\ entries' \in Seq(Entries) /\ Len(entries') <= Len(of)
           /\ stage' \in {"card", "done"}
           /\ stage' = "card" => Len(entries') < Len(of)
           /\ \A i \in DOMAIN entries' :
                \/ entries'[i].search = of[i] /\ entries'[i].runtime = Undefined
                \/ i \in DOMAIN joined /\ entries'[i] = joined[i]
           /\ IF stage' = "card" THEN UNCHANGED selection
              ELSE selection' = Selection(entries', call.prefs)
<1> DEFINE plain == {i \in Len(joined) + 1 .. Len(of) : of[i].node # 0}
           next == IF plain = {} THEN Len(of) + 1
                   ELSE CHOOSE i \in plain : \A j \in plain : i <= j
           k == next - 1 - Len(joined)
           tail == [i \in 1 .. k |->
                       [search |-> of[Len(joined) + i], runtime |-> Undefined]]
<1>1. /\ entries' = joined \o tail
      /\ IF next <= Len(of) THEN stage' = "card" /\ UNCHANGED selection
         ELSE stage' = "done" /\ selection' = Selection(entries', call.prefs)
    BY DEF Join, Selection
<1>2. Len(joined) \in Nat /\ Len(of) \in Nat
    OBVIOUS
<1>3. next \in Len(joined) + 1 .. Len(of) + 1
    <2>1. CASE plain = {}
        BY <1>2, <2>1
    <2>2. CASE plain # {}
        <3>1. plain \subseteq Nat /\ plain \subseteq Len(joined) + 1 .. Len(of)
            BY <1>2
        <3> HIDE DEF plain
        <3>2. next \in plain
            BY <2>2, <3>1, LeastNumber
        <3> HIDE DEF next
        <3>3. next \in Len(joined) + 1 .. Len(of)
            BY <3>1, <3>2
        <3> QED
            BY <1>2, <3>3
    <2> QED
        BY <2>1, <2>2
<1> HIDE DEF next
<1>4. k \in Nat /\ Len(joined) + k <= Len(of)
    BY <1>2, <1>3
<1>5. \A i \in 1 .. k : /\ tail[i] \in Entries /\ tail[i].runtime = Undefined
                         /\ tail[i].search = of[Len(joined) + i]
    <2> SUFFICES ASSUME NEW i \in 1 .. k
                 PROVE  of[Len(joined) + i] \in Results
        BY DEF Entries, Surfaces
    <2>1. Len(joined) + i \in 1 .. Len(of)
        BY <1>2, <1>4
    <2> QED
        BY <2>1
<1>6. tail \in Seq(Entries) /\ Len(tail) = k
    <2>1. tail \in [1 .. k -> Entries]
        BY <1>5
    <2> HIDE DEF tail, k
    <2> QED
        BY <1>4, <2>1
<1> HIDE DEF tail, k
<1>7. /\ entries' \in Seq(Entries) /\ Len(entries') = Len(joined) + k
      /\ DOMAIN entries' = 1 .. Len(joined) + k
      /\ \A i \in 1 .. Len(joined) : entries'[i] = joined[i]
      /\ \A i \in Len(joined) + 1 .. Len(joined) + k :
            entries'[i] = tail[i - Len(joined)]
    <2>1. entries' = joined \o tail /\ k \in Nat
        BY <1>1, <1>4
    <2>2. /\ entries' \in Seq(Entries) /\ Len(entries') = Len(joined) + k
          /\ \A i \in 1 .. Len(joined) + k :
                entries'[i] = IF i <= Len(joined) THEN joined[i]
                              ELSE tail[i - Len(joined)]
        BY <1>6, <2>1, Concatenation
    <2> QED
        BY <1>2, <2>1, <2>2
<1>8. ASSUME NEW i \in DOMAIN entries'
      PROVE  \/ entries'[i].search = of[i] /\ entries'[i].runtime = Undefined
             \/ i \in DOMAIN joined /\ entries'[i] = joined[i]
    <2>1. CASE i \in 1 .. Len(joined)
        BY <1>7, <2>1
    <2>2. CASE i \notin 1 .. Len(joined)
        <3>1. /\ i - Len(joined) \in 1 .. k
              /\ entries'[i] = tail[i - Len(joined)]
              /\ Len(joined) + (i - Len(joined)) = i
            BY <1>2, <1>4, <1>7, <2>2
        <3> QED
            BY <1>5, <3>1
    <2> QED
        BY <2>1, <2>2
<1>9. /\ stage' \in {"card", "done"}
      /\ stage' = "card" => Len(joined) + k < Len(of)
    BY <1>1, <1>2, <1>3 DEF k
<1>10. Len(entries') <= Len(of) /\ (stage' = "card" => Len(entries') < Len(of))
    BY <1>4, <1>7, <1>9
<1>11. IF stage' = "card" THEN UNCHANGED selection
       ELSE selection' = Selection(entries', call.prefs)
    BY <1>1
<1> QED
    BY <1>7, <1>8, <1>9, <1>10, <1>11

\* A search joins an entry and goes on: the entry is of the block the call is
\* pinned to.
LEMMA JoinStep ==
    ASSUME IInv, call # Undefined, call.kind = "search",
           stage \in SearchStages, NEW joined \in Seq(Entries),
           results' \in Seq(Results), Len(joined) <= Len(results'),
           Join(joined, results'),
           UNCHANGED <<chainVars, call, parts, observed>>,
           \A i \in DOMAIN joined : IsPinned(joined[i].runtime)
    PROVE  IInv'
<1>1. /\ entries' \in Seq(Entries)
      /\ stage' \in {"card", "done"}
      /\ stage' = "card" => Len(entries') < Len(results')
      /\ \A i \in DOMAIN entries' :
           \/ entries'[i].runtime = Undefined
           \/ i \in DOMAIN joined /\ entries'[i] = joined[i]
    BY JoinEffect
<1>2. ChainOK' /\ SearchOK' /\ StagesOK'
    BY <1>1 DEF IInv, ChainOK, SearchOK, StagesOK, Settling, SettlementStages,
                SearchStages, chainVars
<1>3. PinnedCall' = PinnedCall /\ PinnedBlock' = PinnedBlock
    BY DEF PinnedCall, PinnedBlock, Pinned, Client!IsNumber, chainVars
<1>4. EntriesPinned'
    <2> SUFFICES ASSUME NEW i \in DOMAIN entries'
                 PROVE  IsPinned(entries[i].runtime)'
        BY DEF EntriesPinned
    <2>1. CASE entries'[i].runtime = Undefined
        BY <2>1 DEF IsPinned
    <2>2. CASE i \in DOMAIN joined /\ entries'[i] = joined[i]
        <3>1. IsPinned(entries'[i].runtime)
            BY <2>2
        <3> QED
            BY <1>3, <3>1 DEF IsPinned, Runtime
    <2> QED
        BY <1>1, <2>1, <2>2
<1>5. ~Settling /\ ~Settling' /\ call'.kind \notin WithParties
    BY DEF Settling, Plan, WithParties
<1>6. PartiesPinned' /\ PartsRead' /\ StillSettled'
    BY <1>5 DEF PartiesPinned, PartsRead, StillSettled
<1>7. ReadRepeats'
    BY DEF IInv, ReadRepeats, FinalReadsRepeat, Pinned, Client!IsNumber, chainVars
<1> QED
    BY <1>2, <1>4, <1>6, <1>7 DEF IInv

\* The answer to the search.
LEMMA SearchAnsweredStep ==
    ASSUME IInv, SearchAnswered
    PROVE  IInv'
<1>1. PICK n \in 0 .. MaxResults : \E found \in [1 .. n -> Results] :
        results' = found /\ Join(<<>>, found)
    BY DEF SearchAnswered
<1>2. n \in Nat
    OBVIOUS
<1>3. results' \in [1 .. n -> Results] /\ Join(<<>>, results')
    BY <1>1
<1>4. results' \in Seq(Results) /\ Len(results') \in Nat
    BY <1>2, <1>3
<1>5. /\ call # Undefined /\ call.kind = "search" /\ stage \in SearchStages
      /\ UNCHANGED <<chainVars, call, parts, observed>>
    BY DEF SearchAnswered, IInv, StagesOK, SearchStages
<1> DEFINE none == <<>>
<1>6. none \in Seq(Entries) /\ Len(none) = 0 /\ DOMAIN none = {}
    OBVIOUS
<1>7. Join(none, results')
    BY <1>3
<1> HIDE DEF none
<1>8. \A i \in DOMAIN none : IsPinned(none[i].runtime)
    BY <1>6
<1>9. Len(none) <= Len(results')
    BY <1>4, <1>6
<1> QED
    BY <1>4, <1>5, <1>6, <1>7, <1>8, <1>9, JoinStep

\* The i-th entry, when one is joined to the entries so far.
LEMMA EntryJoined ==
    ASSUME IInv, stage \in {"card", "runtime"}, NEW runtime \in Surfaces,
           IsPinned(runtime),
           NEW joined,
           joined = Append(entries, [search |-> results[Len(entries) + 1],
                                     runtime |-> runtime])
    PROVE  /\ joined \in Seq(Entries) /\ Len(joined) <= Len(results)
           /\ \A i \in DOMAIN joined : IsPinned(joined[i].runtime)
<1> DEFINE e == [search |-> results[Len(entries) + 1], runtime |-> runtime]
<1>1. /\ entries \in Seq(Entries) /\ results \in Seq(Results)
      /\ Len(entries) < Len(results) /\ EntriesPinned
    BY DEF IInv, SearchOK
<1>2. Len(entries) + 1 \in 1 .. Len(results)
    BY <1>1
<1>3. e \in Entries /\ e.runtime = runtime
    BY <1>1, <1>2 DEF Entries
<1> HIDE DEF e
<1>4. /\ joined \in Seq(Entries) /\ Len(joined) = Len(entries) + 1
      /\ DOMAIN joined = 1 .. Len(entries) + 1
      /\ joined[Len(entries) + 1] = e
      /\ \A i \in 1 .. Len(entries) : joined[i] = entries[i]
    BY <1>1, <1>3 DEF e
<1>5. ASSUME NEW i \in DOMAIN joined
      PROVE  IsPinned(joined[i].runtime)
    <2>1. CASE i = Len(entries) + 1
        BY <1>3, <1>4, <2>1
    <2>2. CASE i # Len(entries) + 1
        <3>1. i \in 1 .. Len(entries)
            BY <1>1, <1>4, <2>2
        <3> QED
            BY <1>1, <1>4, <3>1 DEF EntriesPinned
    <2> QED
        BY <2>1, <2>2
<1> QED
    BY <1>1, <1>4, <1>5

\* The answer with a card: its contract is asked for, or there is none.
LEMMA CardAnsweredStep ==
    ASSUME IInv, CardAnswered
    PROVE  IInv'
<1> DEFINE joined == Append(entries, [search |-> results[Len(entries) + 1],
                                      runtime |-> Undefined])
<1>1. /\ stage = "card" /\ call # Undefined /\ call.kind = "search"
      /\ stage \in SearchStages
      /\ UNCHANGED <<chainVars, call, parts, results, observed>>
    BY DEF CardAnswered, IInv, StagesOK, SearchStages
<1>2. CASE Join(joined, results)
    <2>1. /\ joined \in Seq(Entries) /\ Len(joined) <= Len(results)
          /\ \A i \in DOMAIN joined : IsPinned(joined[i].runtime)
        <3>1. Undefined \in Surfaces /\ IsPinned(Undefined)
            BY DEF Surfaces, IsPinned
        <3> QED
            BY <1>1, <3>1, EntryJoined
    <2>2. results \in Seq(Results)
        BY DEF IInv, SearchOK
    <2> HIDE DEF joined
    <2>3. results' = results /\ Join(joined, results')
        BY <1>1, <1>2
    <2> QED
        BY <1>1, <2>1, <2>2, <2>3, JoinStep
<1>3. CASE /\ card' \in Addresses /\ stage' = "runtime"
           /\ UNCHANGED <<entries, selection>>
    <2>1. ChainOK' /\ SearchOK' /\ StagesOK'
        BY <1>1, <1>3 DEF IInv, ChainOK, SearchOK, StagesOK, Settling,
                          SettlementStages, SearchStages, chainVars
    <2>2. EntriesPinned'
        BY <1>1, <1>3 DEF IInv, EntriesPinned, IsPinned, PinnedCall, PinnedBlock, Pinned,
                          Client!IsNumber, Runtime, chainVars
    <2>3. ~Settling' /\ call'.kind \notin WithParties
        BY <1>1 DEF Settling, Plan, WithParties
    <2>4. PartiesPinned' /\ PartsRead' /\ StillSettled'
        BY <1>1, <2>3 DEF PartiesPinned, PartsRead, StillSettled
    <2>5. ReadRepeats'
        BY <1>1 DEF IInv, ReadRepeats, FinalReadsRepeat, Pinned, Client!IsNumber,
                    chainVars
    <2> QED
        BY <2>1, <2>2, <2>4, <2>5 DEF IInv
<1> QED
    BY <1>2, <1>3 DEF CardAnswered

\* The answer with a contract.
LEMMA RuntimeAnsweredStep ==
    ASSUME IInv, RuntimeAnswered
    PROVE  IInv'
<1> DEFINE runtime == Runtime(BlockAt(MetadataBlock), card)
           joined == Append(entries, [search |-> results[Len(entries) + 1],
                                      runtime |-> runtime])
<1>1. /\ stage = "runtime" /\ call # Undefined /\ call.kind = "search"
      /\ stage \in SearchStages /\ Known(MetadataBlock) /\ Join(joined, results)
      /\ UNCHANGED <<chainVars, call, parts, results, observed>>
    BY DEF RuntimeAnswered, IInv, StagesOK, SearchStages
<1>2. /\ ChainOK /\ card \in Addresses /\ results \in Seq(Results)
      /\ call.final \in Nat /\ call.final <= final
    BY <1>1 DEF IInv, SearchOK, StagesOK, Calls
<1>3. /\ BlockAt(MetadataBlock) \in Blocks
      /\ PinnedCall => BlockAt(MetadataBlock) = PinnedBlock
    BY <1>1, <1>2, MetadataFacts
<1>4. runtime \in Surfaces /\ (runtime # Undefined => runtime.address = card)
    BY <1>2, <1>3, RuntimeFacts
<1>5. IsPinned(runtime)
    BY <1>3, <1>4 DEF IsPinned
<1> HIDE DEF runtime
<1>6. /\ joined \in Seq(Entries) /\ Len(joined) <= Len(results)
      /\ \A i \in DOMAIN joined : IsPinned(joined[i].runtime)
    BY <1>1, <1>4, <1>5, EntryJoined
<1> HIDE DEF joined
<1> QED
    BY <1>1, <1>2, <1>6, JoinStep

-----------------------------------------------------------------------------
(***************************************************************************)
(* The steps that begin a call, and single reads.                          *)
(***************************************************************************)
\* Before a call there is nothing.
LEMMA IdleFacts ==
    ASSUME IInv, stage = "idle"
    PROVE  /\ ChainOK /\ call = Undefined /\ observed = Undefined
           /\ parts = NoParts /\ parts \in Parts /\ entries = <<>>
           /\ entries \in Seq(Entries) /\ results \in Seq(Results)
           /\ final \in Nat
BY DEF IInv, StagesOK, SearchOK, ChainOK

\* A settlement begins with the first part of its plan.
LEMMA StartSettlementStep ==
    ASSUME IInv, NEW kind \in DOMAIN Plan, NEW r \in Refs,
           NEW block \in CallerBlocks, StartSettlement(kind, r, block)
    PROVE  IInv'
<1>1. /\ stage = "idle" /\ stage' = Plan[kind][1]
      /\ call' = [kind |-> kind,
                  ref |-> IF Plan[kind][1] = "receipt" THEN r
                          ELSE SettlementOf(r), block |-> block,
                  prefs |-> Undefined, final |-> final, replaced |-> FALSE]
      /\ UNCHANGED <<chainVars, parts, results, card, entries, observed>>
    BY DEF StartSettlement
<1>2. /\ ChainOK /\ parts = NoParts /\ parts \in Parts /\ entries = <<>>
      /\ observed = Undefined /\ final \in Nat
      /\ entries \in Seq(Entries) /\ results \in Seq(Results)
    BY <1>1, IdleFacts
<1>3. call' \in Calls /\ call' # Undefined
    <2>1. call' \in Calls
        BY <1>1, <1>2 DEF Calls
    <2> QED
        BY <2>1, PartsAssumption DEF PartsAssumption
<1>4. stage' \in {"receipt", "effect"} /\ Settling' /\ First' = stage'
    BY <1>1, <1>3 DEF Plan, Settling, First
<1>5. ChainOK'
    BY <1>1, <1>2 DEF ChainOK, chainVars
<1>6. StagesOK'
    BY <1>1, <1>2, <1>3, <1>4 DEF StagesOK, SettlementStages, SearchStages, chainVars
<1>7. SearchOK' /\ EntriesPinned'
    BY <1>1, <1>2, <1>4 DEF SearchOK, EntriesPinned
<1>8. PartiesPinned' /\ ReadRepeats'
    BY <1>1, <1>2, <1>4 DEF PartiesPinned, ReadRepeats
<1>9. PartsRead'
    <2>1. IF First' = "receipt" THEN call'.ref \in Refs
          ELSE call'.ref \in {SettlementOf(q) : q \in Refs}
        BY <1>1, <1>4
    <2> QED
        BY <1>1, <1>2, <1>4, <2>1 DEF PartsRead
<1>10. StillSettled'
    BY <1>1, <1>2 DEF StillSettled, SettledIn, Settled, NoParts
<1> QED
    BY <1>5, <1>6, <1>7, <1>8, <1>9, <1>10 DEF IInv

\* A search begins with nothing joined.
LEMMA StartSearchStep ==
    ASSUME IInv, NEW prefs \in Preferences,
           NEW block \in CallerBlocks, StartSearch(block, prefs)
    PROVE  IInv'
<1>1. /\ stage = "idle" /\ stage' = "search"
      /\ call' = [kind |-> "search", ref |-> Undefined, block |-> block,
                  prefs |-> prefs, final |-> final, replaced |-> FALSE]
      /\ UNCHANGED <<chainVars, parts, results, card, entries, observed>>
    BY DEF StartSearch
<1>2. /\ ChainOK /\ parts \in Parts /\ entries = <<>>
      /\ observed = Undefined /\ final \in Nat
      /\ entries \in Seq(Entries) /\ results \in Seq(Results)
    BY <1>1, IdleFacts
<1>3. call' \in Calls /\ call' # Undefined
    <2>1. call' \in Calls
        BY <1>1, <1>2 DEF Calls
    <2> QED
        BY <2>1, PartsAssumption DEF PartsAssumption
<1>4. ~Settling'
    BY <1>1 DEF Settling, Plan
<1>5. ChainOK'
    BY <1>1, <1>2 DEF ChainOK, chainVars
<1>6. StagesOK'
    BY <1>1, <1>2, <1>3 DEF StagesOK, SettlementStages, SearchStages, chainVars
<1>7. SearchOK' /\ EntriesPinned'
    BY <1>1, <1>2 DEF SearchOK, EntriesPinned
<1>8. PartiesPinned' /\ PartsRead' /\ StillSettled' /\ ReadRepeats'
    BY <1>1, <1>2, <1>4 DEF PartiesPinned, PartsRead, StillSettled, ReadRepeats
<1> QED
    BY <1>5, <1>6, <1>7, <1>8 DEF IInv

\* A read that describes the blocks meant keeps the invariant.
LEMMA ObserveStep ==
    ASSUME IInv, stage = "idle", NEW from, NEW to, NEW blocks,
           Observe(from, to, blocks),
           Pinned(from, final) /\ Pinned(to, final) =>
               blocks = SubSeq(chain, from.number + 1, to.number + 1)
    PROVE  IInv'
<1>1. /\ stage' = "done"
      /\ observed' = [from |-> from, to |-> to, final |-> final,
                      ids |-> [i \in DOMAIN blocks |-> blocks[i].id]]
      /\ UNCHANGED <<chainVars, call, parts, results, card, entries>>
    BY DEF Observe
<1>2. /\ ChainOK /\ call = Undefined /\ parts \in Parts /\ entries = <<>>
      /\ final \in Nat
      /\ entries \in Seq(Entries) /\ results \in Seq(Results)
    BY IdleFacts
<1>3. ChainOK' /\ StagesOK' /\ SearchOK' /\ EntriesPinned'
    BY <1>1, <1>2 DEF ChainOK, StagesOK, SearchOK, EntriesPinned,
                      SettlementStages, SearchStages, chainVars
<1>4. PartiesPinned' /\ PartsRead' /\ StillSettled'
    BY <1>1, <1>2 DEF PartiesPinned, PinnedCall, PartsRead, StillSettled, Settling
<1>5. FinalReadsRepeat'
    <2> SUFFICES ASSUME Pinned(from, final), Pinned(to, final)
                 PROVE  FinalReadsRepeat'
        BY <1>1 DEF FinalReadsRepeat, Pinned, Client!IsNumber
    <2>1. blocks = SubSeq(chain', from.number + 1, to.number + 1)
        BY <1>1 DEF chainVars
    <2> QED
        BY <1>1, <2>1 DEF FinalReadsRepeat
<1>6. ReadRepeats'
    BY <1>1, <1>2, <1>5 DEF ReadRepeats, chainVars
<1> QED
    BY <1>3, <1>4, <1>6 DEF IInv

\* A read of one block, whose request carries the number given.
LEMMA ReadAtStep ==
    ASSUME IInv, stage = "idle", NEW block, NEW requested,
           ReadAt(block, requested),
           Pinned(block, final) => requested = [quantity |-> block.number]
    PROVE  IInv'
<1>1. Observe(block, block, <<BlockAt(requested)>>)
    BY DEF ReadAt
<1>2. ASSUME Pinned(block, final)
      PROVE  <<BlockAt(requested)>>
                = SubSeq(chain, block.number + 1, block.number + 1)
    <2>1. /\ block.number \in 0 .. final /\ final \in Nat
          /\ chain \in Seq(Blocks) /\ final < Len(chain)
        BY <1>2 DEF Pinned, IInv, ChainOK
    <2> DEFINE n == block.number
    <2>2. n \in Nat /\ n + 1 \in 1 .. Len(chain)
        BY <2>1
    <2>3. BlockAt(requested) = chain[n + 1]
        BY <1>2, <2>2, QuantityIsNumber DEF BlockAt
    <2> HIDE DEF n
    <2>4. SubSeq(chain, n + 1, n + 1) = <<chain[n + 1]>>
        BY <2>1, <2>2, OneElement
    <2> QED
        BY <2>3, <2>4 DEF n
<1> QED
    BY <1>1, <1>2, ObserveStep

\* Reads by tag or number, under both names.
LEMMA ReadStep ==
    ASSUME IInv, Read \/ ParityRead
    PROVE  IInv'
<1>1. stage = "idle" /\ final \in Nat
    BY IdleFacts DEF Read, ParityRead
<1>2. CASE Read
    <2>1. PICK m \in DOMAIN Client!DefaultBlock, block \in CallerBlocks :
            /\ Client!DefaultBlock[m] \notin {"none", "fixed", "hash"}
            /\ ReadAt(block, Client!RequestBlock(m, block))
        BY <1>2 DEF Read
    <2>2. Pinned(block, final) =>
            Client!RequestBlock(m, block) = [quantity |-> block.number]
        BY <1>1, <2>1, NumberIsRead
    <2> QED
        BY <1>1, <2>1, <2>2, ReadAtStep
<1>3. CASE ParityRead
    <2>1. PICK f \in {"balanceAt", "storageAt", "codeAt", "nonceAt",
                      "callContract", "callContractWithOverrides",
                      "blockByNumber", "headerByNumber"},
               block \in CallerBlocks :
            ReadAt(block, Client!ParityBlock(f, block))
        BY <1>3 DEF ParityRead
    <2>2. Pinned(block, final) =>
            Client!ParityBlock(f, block) = [quantity |-> block.number]
        BY <1>1, ParityNumberIsRead
    <2> QED
        BY <1>1, <2>1, <2>2, ReadAtStep
<1> QED
    BY <1>2, <1>3

\* Both filters keep a range of numbers, from block 0 on.
LEMMA FilterKeepsNumbers ==
    ASSUME NEW from, NEW to, NEW last \in Nat,
           Pinned(from, last), Pinned(to, last),
           NEW filter, filter = [blockHash |-> Undefined, fromBlock |-> from,
                                 toBlock |-> to],
           NEW range \in {Client!LogFilter(filter), Client!NewFilter(filter)}
    PROVE  /\ range.fromBlock = [quantity |-> from.number]
           /\ range.toBlock = [quantity |-> to.number]
<1>1. /\ Client!NormalizeBlockTag(from) = [quantity |-> from.number]
      /\ Client!NormalizeBlockTag(to) = [quantity |-> to.number]
    BY DEF Pinned, Client!NormalizeBlockTag
<1>2. \A default : Client!Or(from, default) = from /\ Client!Or(to, default) = to
    BY DEF Pinned, Client!IsNumber, Client!Or
<1> QED
    BY <1>1, <1>2 DEF Client!LogFilter, Client!NewFilter

\* Reads of logs.
LEMMA LogReadStep ==
    ASSUME IInv, LogRead
    PROVE  IInv'
<1>1. stage = "idle" /\ final \in Nat
    BY IdleFacts DEF LogRead
<1>2. ASSUME NEW from \in CallerBlocks, NEW to \in CallerBlocks,
             NEW filter, filter = [blockHash |-> Undefined, fromBlock |-> from,
                                   toBlock |-> to],
             NEW range \in {Client!LogFilter(filter), Client!NewFilter(filter)},
             Observe(from, to, SubSeq(chain, NumberOf(range.fromBlock) + 1,
                                      NumberOf(range.toBlock) + 1))
      PROVE  IInv'
    <2>1. ASSUME Pinned(from, final), Pinned(to, final)
          PROVE  /\ NumberOf(range.fromBlock) = from.number
                 /\ NumberOf(range.toBlock) = to.number
        <3>1. from.number \in Nat /\ to.number \in Nat
            BY <1>1, <2>1 DEF Pinned
        <3>2. /\ range.fromBlock = [quantity |-> from.number]
              /\ range.toBlock = [quantity |-> to.number]
            BY <1>1, <1>2, <2>1, FilterKeepsNumbers
        <3> QED
            BY <3>1, <3>2, QuantityIsNumber
    <2> QED
        BY <1>1, <1>2, <2>1, ObserveStep
<1>3. ASSUME NEW blocks, Observe(Undefined, Undefined, blocks)
      PROVE  IInv'
    <2>1. ~Pinned(Undefined, final)
        BY DEF Pinned, Client!IsNumber
    <2> QED
        BY <1>1, <1>3, <2>1, ObserveStep
<1> QED
    BY <1>2, <1>3 DEF LogRead

-----------------------------------------------------------------------------
(***************************************************************************)
(* The theorems.                                                           *)
(***************************************************************************)
\* The invariant holds at the start.
LEMMA InitStep ==
    ASSUME Init
    PROVE  IInv
<1>1. PICK receipts \in [Refs -> {"none", "open"}] :
        chain = <<Block(0, [a \in Addresses |-> Undefined], receipts)>>
    BY DEF Init
<1>2. /\ final = 0 /\ ids = 1 /\ call = Undefined /\ stage = "idle"
      /\ parts = NoParts /\ results = <<>> /\ entries = <<>>
      /\ observed = Undefined
    BY DEF Init
<1>3. Block(0, [a \in Addresses |-> Undefined], receipts) \in Blocks
    BY DEF Block, Blocks
<1>4. ChainOK
    BY <1>1, <1>2, <1>3 DEF ChainOK
<1>5. StagesOK
    BY <1>2 DEF StagesOK, SettlementStages, SearchStages, Parts, NoParts, Surfaces
<1>6. SearchOK /\ EntriesPinned
    BY <1>2 DEF SearchOK, EntriesPinned
<1>7. PartiesPinned /\ PartsRead /\ StillSettled /\ ReadRepeats
    BY <1>2 DEF PartiesPinned, PinnedCall, PartsRead, StillSettled, Settling,
                ReadRepeats
<1> QED
    BY <1>4, <1>5, <1>6, <1>7 DEF IInv

\* The steps of the chain keep the invariant.
LEMMA ChainSteps ==
    ASSUME IInv, Mine \/ Reorganize \/ Finalize
    PROVE  IInv'
<1>1. ChainOK
    BY DEF IInv
<1>2. final \in Nat /\ Len(chain) \in Nat /\ final < Len(chain)
    BY <1>1 DEF ChainOK
<1>3. CASE Mine
    <2>1. UNCHANGED <<call, stage, parts, results, card, entries, observed>>
        BY <1>3 DEF Mine, Grow
    <2>2. ChainOK' /\ final <= final' /\ \A i \in 1 .. final + 1 : chain'[i] = chain[i]
        BY <1>1, <1>2, <1>3, MineFacts
    <2>3. \A r \in Refs : Tip.receipts[r] = "settled" => Tip'.receipts[r] = "settled"
        BY <1>1, <1>3, MineFacts
    <2> QED
        BY <2>1, <2>2, <2>3, ChainStep
<1>4. CASE Reorganize
    <2>1. /\ UNCHANGED <<stage, parts, results, card, entries, observed>>
          /\ call' = IF call = Undefined THEN call
                     ELSE [call EXCEPT !.replaced = TRUE]
        BY <1>4 DEF Reorganize, Grow
    <2>2. ChainOK' /\ final <= final' /\ \A i \in 1 .. final + 1 : chain'[i] = chain[i]
        BY <1>1, <1>2, <1>4, ReorganizeFacts
    <2> QED
        BY <2>1, <2>2, ChainStep
<1>5. CASE Finalize
    <2>1. /\ UNCHANGED <<chain, ids, call, stage, parts, results, card, entries,
                        observed>>
          /\ final' = final + 1 /\ Len(chain) - 1 > final
        BY <1>5 DEF Finalize
    <2>2. ChainOK' /\ final <= final'
        BY <1>1, <1>2, <2>1 DEF ChainOK
    <2>3. Tip' = Tip
        BY <2>1 DEF Tip
    <2> QED
        BY <2>1, <2>2, <2>3, ChainStep
<1> QED
    BY <1>3, <1>4, <1>5

\* Every step keeps the invariant.
LEMMA NextStep ==
    ASSUME IInv, [Next]_vars
    PROVE  IInv'
<1>1. CASE Mine \/ Reorganize \/ Finalize
    BY <1>1, ChainSteps
<1>2. CASE Read \/ ParityRead
    BY <1>2, ReadStep
<1>3. CASE LogRead
    BY <1>3, LogReadStep
<1>4. ASSUME NEW block \in CallerBlocks, NEW kind \in DOMAIN Plan, NEW r \in Refs,
             StartSettlement(kind, r, block)
      PROVE  IInv'
    BY <1>4, StartSettlementStep
<1>5. ASSUME NEW block \in CallerBlocks, NEW prefs \in Preferences,
             StartSearch(block, prefs)
      PROVE  IInv'
    BY <1>5, StartSearchStep
<1>6. CASE ReceiptAnswered
    BY <1>6, ReceiptAnsweredStep
<1>7. CASE EffectAnswered
    BY <1>7, EffectAnsweredStep
<1>8. CASE PartyAnswered
    BY <1>8, PartyAnsweredStep
<1>9. CASE SearchAnswered
    BY <1>9, SearchAnsweredStep
<1>10. CASE CardAnswered
    BY <1>10, CardAnsweredStep
<1>11. CASE RuntimeAnswered
    BY <1>11, RuntimeAnsweredStep
<1>12. CASE RequestFailed
    BY <1>12, RejectStep DEF RequestFailed
<1>13. CASE UNCHANGED vars
    <2>1. UNCHANGED <<chain, final, ids, call, stage, parts, results, card, entries,
                      observed>>
        BY <1>13 DEF vars
    <2>2. ChainOK' /\ final <= final' /\ Tip' = Tip
        BY <2>1 DEF IInv, ChainOK, Tip
    <2> QED
        BY <2>1, <2>2, ChainStep
<1> QED
    BY <1>1, <1>2, <1>3, <1>4, <1>5, <1>6, <1>7, <1>8, <1>9, <1>10, <1>11,
       <1>12, <1>13 DEF Next

\* The invariant holds in every state.
THEOREM RuntimeInvariance == Spec => []IInv
<1>1. Init => IInv
    BY InitStep
<1>2. IInv /\ [Next]_vars => IInv'
    BY NextStep
<1> QED
    BY <1>1, <1>2, PTL DEF Spec

\* A read of blocks that were final when it was made is repeatable, under both
\* names a method has, for every method that takes a block or a range.
THEOREM FinalReadsAlwaysRepeat == Spec => []FinalReadsRepeat
<1>1. IInv => FinalReadsRepeat
    BY DEF IInv, ReadRepeats, FinalReadsRepeat
<1> QED
    BY <1>1, RuntimeInvariance, PTL

\* All contracts a surface shows, of a search's results, a receipt's parties
\* or an effect's, are those of the final block asked for, whatever happens to
\* the chain while the call joins them.
THEOREM ContractsOfOneBlock == Spec => []RuntimesOfOneBlock
<1>1. ASSUME IInv, call # Undefined, Pinned(call.block, call.final)
      PROVE  /\ \A i \in DOMAIN entries :
                    entries[i].runtime # Undefined =>
                        entries[i].runtime =
                            Runtime(PinnedBlock, entries[i].runtime.address)
             /\ stage = "done" /\ call.kind \in WithParties =>
                    \A p \in {"sender", "recipient"} :
                        Party(parts, p) # Undefined =>
                            parts[p] = Runtime(PinnedBlock, Party(parts, p))
    BY <1>1 DEF IInv, EntriesPinned, IsPinned, PartiesPinned, PinnedCall
<1>2. IInv => RuntimesOfOneBlock
    BY <1>1 DEF RuntimesOfOneBlock, PinnedBlock
<1> QED
    BY <1>2, RuntimeInvariance, PTL

\* The receipt and the effect of a surface refer to each other, and one is
\* there without the other only if a block was replaced between the two reads.
THEOREM SettlementsAreWhole == Spec => []SettlementIsWhole
<1>1. ASSUME IInv, stage = "done", call # Undefined, call.kind \in DOMAIN Plan
      PROVE  /\ parts[First].ref = call.ref
             /\ Whole(parts)
    BY <1>1, PlanFacts DEF IInv, PartsRead, Settling
<1>2. IInv => SettlementIsWhole
    BY <1>1 DEF SettlementIsWhole, Whole, Settled
<1> QED
    BY <1>2, RuntimeInvariance, PTL

-----------------------------------------------------------------------------
(***************************************************************************)
(* What a search selects.  The entries are the results, each once; a       *)
(* selection is made of all of them with the preferences of the call, and  *)
(* nothing is joined after it.                                             *)
(***************************************************************************)
Apart(rs) == \A i, j \in DOMAIN rs : rs[i].node = rs[j].node => i = j

Matches(es, rs) ==
    \A i \in DOMAIN es : i \in DOMAIN rs /\ es[i].search = rs[i]

Selected ==
    /\ call # Undefined /\ call.prefs \in Preferences
    /\ selection = Selection(entries, call.prefs)

SearchKept ==
    /\ Apart(results) /\ Matches(entries, results)
    /\ stage \in SearchStages => call.prefs \in Preferences
    /\ stage # "done" => selection = Undefined
    /\ selection # Undefined => Selected

\* A step that is not of a search leaves everything of searches as it is.
LEMMA SearchUntouched ==
    ASSUME SearchKept, UNCHANGED <<results, entries, selection>>,
           stage # "done", stage' \in SearchStages => call'.prefs \in Preferences
    PROVE  SearchKept'
BY DEF SearchKept, Selected, Apart, Matches

\* A join keeps the results apart, matches them, and may select.
LEMMA JoinKeeps ==
    ASSUME SearchKept, NEW joined \in Seq(Entries), results' \in Seq(Results),
           Len(joined) <= Len(results'), Apart(results)', Matches(joined, results'),
           Join(joined, results'), stage \in SearchStages, call # Undefined,
           UNCHANGED call
    PROVE  SearchKept'
<1>1. /\ entries' \in Seq(Entries) /\ Len(entries') <= Len(results')
      /\ stage' \in {"card", "done"}
      /\ \A i \in DOMAIN entries' :
           \/ entries'[i].search = results'[i] /\ entries'[i].runtime = Undefined
           \/ i \in DOMAIN joined /\ entries'[i] = joined[i]
      /\ IF stage' = "card" THEN UNCHANGED selection
         ELSE selection' = Selection(entries', call.prefs)
    BY JoinEffect
<1>2. Matches(entries, results)'
    <2> SUFFICES ASSUME NEW i \in DOMAIN entries'
                 PROVE  i \in DOMAIN results' /\ entries'[i].search = results'[i]
        BY DEF Matches
    <2>1. i \in DOMAIN results'
        BY <1>1
    <2>2. entries'[i].search = results'[i]
        BY <1>1 DEF Matches
    <2> QED
        BY <2>1, <2>2
<1>3. call.prefs \in Preferences /\ selection = Undefined
    BY DEF SearchKept, SearchStages
<1>4. selection' = Undefined \/ Selected'
    BY <1>1, <1>3 DEF Selected
<1> QED
    BY <1>1, <1>2, <1>3, <1>4 DEF SearchKept

\* The entry joined next is the one of the next result.
LEMMA NextMatches ==
    ASSUME IInv, SearchKept, stage \in {"card", "runtime"}, NEW runtime \in Surfaces,
           NEW joined,
           joined = Append(entries, [search |-> results[Len(entries) + 1],
                                     runtime |-> runtime])
    PROVE  /\ joined \in Seq(Entries) /\ Len(joined) <= Len(results)
           /\ Matches(joined, results)
<1> DEFINE e == [search |-> results[Len(entries) + 1], runtime |-> runtime]
<1>1. /\ entries \in Seq(Entries) /\ results \in Seq(Results)
      /\ Len(entries) < Len(results) /\ Matches(entries, results)
    BY DEF IInv, SearchOK, SearchKept
<1>2. Len(entries) + 1 \in 1 .. Len(results)
    BY <1>1
<1>3. e \in Entries /\ e.search = results[Len(entries) + 1]
    BY <1>1, <1>2 DEF Entries
<1> HIDE DEF e
<1>4. /\ joined \in Seq(Entries) /\ Len(joined) = Len(entries) + 1
      /\ DOMAIN joined = 1 .. Len(entries) + 1
      /\ joined[Len(entries) + 1] = e
      /\ \A i \in 1 .. Len(entries) : joined[i] = entries[i]
    BY <1>1, <1>3 DEF e
<1>5. ASSUME NEW i \in DOMAIN joined
      PROVE  i \in DOMAIN results /\ joined[i].search = results[i]
    <2>1. CASE i = Len(entries) + 1
        BY <1>1, <1>2, <1>3, <1>4, <2>1
    <2>2. CASE i # Len(entries) + 1
        <3>1. i \in 1 .. Len(entries)
            BY <1>1, <1>4, <2>2
        <3> QED
            BY <1>1, <1>4, <3>1 DEF Matches
    <2> QED
        BY <2>1, <2>2
<1> QED
    BY <1>1, <1>4, <1>5 DEF Matches

\* The answer to the search: what was found is found once.
LEMMA SearchAnsweredKeeps ==
    ASSUME IInv, SearchKept, SearchAnswered
    PROVE  SearchKept'
<1>1. PICK n \in 0 .. MaxResults : \E found \in [1 .. n -> Results] :
        /\ \A i, j \in 1 .. n : found[i].node = found[j].node => i = j
        /\ results' = found /\ Join(<<>>, found)
    BY DEF SearchAnswered
<1>2. n \in Nat
    OBVIOUS
<1>3. /\ results' \in [1 .. n -> Results] /\ Join(<<>>, results')
      /\ Apart(results)'
    BY <1>1 DEF Apart
<1>4. results' \in Seq(Results) /\ Len(results') \in Nat
    BY <1>2, <1>3
<1>5. call # Undefined /\ stage \in SearchStages /\ UNCHANGED call
    BY DEF SearchAnswered, IInv, StagesOK, SearchStages
<1> DEFINE none == <<>>
<1>6. /\ none \in Seq(Entries) /\ Len(none) = 0 /\ DOMAIN none = {}
      /\ Join(none, results')
    BY <1>3
<1> HIDE DEF none
<1>7. Matches(none, results') /\ Len(none) <= Len(results')
    BY <1>4, <1>6 DEF Matches
<1> QED
    BY <1>3, <1>4, <1>5, <1>6, <1>7, JoinKeeps

\* The answer with a card.
LEMMA CardAnsweredKeeps ==
    ASSUME IInv, SearchKept, CardAnswered
    PROVE  SearchKept'
<1> DEFINE joined == Append(entries, [search |-> results[Len(entries) + 1],
                                      runtime |-> Undefined])
<1>1. /\ stage = "card" /\ call # Undefined /\ stage \in SearchStages
      /\ UNCHANGED <<call, results>> /\ results \in Seq(Results)
    BY DEF CardAnswered, IInv, StagesOK, SearchOK, SearchStages
<1>2. CASE Join(joined, results)
    <2>1. /\ joined \in Seq(Entries) /\ Len(joined) <= Len(results)
          /\ Matches(joined, results)
        <3>1. Undefined \in Surfaces
            BY DEF Surfaces
        <3> QED
            BY <1>1, <3>1, NextMatches
    <2> HIDE DEF joined
    <2>2. results' = results /\ Join(joined, results') /\ Apart(results)'
        BY <1>1, <1>2 DEF SearchKept, Apart
    <2> QED
        BY <1>1, <2>1, <2>2, JoinKeeps
<1>3. CASE stage' = "runtime" /\ UNCHANGED <<entries, selection>>
    BY <1>1, <1>3, SearchUntouched DEF SearchKept
<1> QED
    BY <1>2, <1>3 DEF CardAnswered

\* The answer with a contract.
LEMMA RuntimeAnsweredKeeps ==
    ASSUME IInv, SearchKept, RuntimeAnswered
    PROVE  SearchKept'
<1> DEFINE runtime == Runtime(BlockAt(MetadataBlock), card)
           joined == Append(entries, [search |-> results[Len(entries) + 1],
                                      runtime |-> runtime])
<1>1. /\ stage = "runtime" /\ call # Undefined /\ stage \in SearchStages
      /\ Known(MetadataBlock) /\ Join(joined, results)
      /\ UNCHANGED <<call, results>> /\ results \in Seq(Results)
    BY DEF RuntimeAnswered, IInv, StagesOK, SearchOK, SearchStages
<1>2. /\ ChainOK /\ card \in Addresses
      /\ call.final \in Nat /\ call.final <= final
    BY <1>1 DEF IInv, SearchOK, StagesOK, Calls
<1>3. BlockAt(MetadataBlock) \in Blocks
    BY <1>1, <1>2, MetadataFacts
<1>4. runtime \in Surfaces
    BY <1>2, <1>3, RuntimeFacts
<1> HIDE DEF runtime
<1>5. /\ joined \in Seq(Entries) /\ Len(joined) <= Len(results)
      /\ Matches(joined, results)
    BY <1>1, <1>4, NextMatches
<1> HIDE DEF joined
<1>6. results' = results /\ Apart(results)'
    BY <1>1 DEF SearchKept, Apart
<1> QED
    BY <1>1, <1>5, <1>6, JoinKeeps

\* A chain that goes on or is replaced leaves the search as it is.
LEMMA ChainKeeps ==
    ASSUME IInv, SearchKept, Mine \/ Reorganize \/ Finalize
    PROVE  SearchKept'
<1>1. UNCHANGED <<stage, results, entries, selection>>
    BY DEF Mine, Reorganize, Finalize, Grow
<1>2. \/ call' = call
      \/ call # Undefined /\ call' = [call EXCEPT !.replaced = TRUE]
    BY DEF Mine, Reorganize, Finalize
<1>3. stage \in SearchStages => call # Undefined
    BY DEF IInv, StagesOK
<1>4. call # Undefined => call' # Undefined /\ call'.prefs = call.prefs
    <2> SUFFICES ASSUME call # Undefined
                 PROVE  call' # Undefined /\ call'.prefs = call.prefs
        OBVIOUS
    <2>1. call \in Calls
        BY DEF IInv, StagesOK
    <2>2. call'.prefs = call.prefs /\ call' \in Calls
        BY <1>2, <2>1 DEF Calls
    <2> QED
        BY <2>2, PartsAssumption
<1> QED
    BY <1>1, <1>3, <1>4 DEF SearchKept, Selected, Apart, Matches

\* A settlement, or a read, begins and goes on without a search.
LEMMA OthersKeep ==
    ASSUME IInv, IInv', SearchKept,
           UNCHANGED <<results, entries, selection>>, stage # "done",
           \/ stage' \notin SearchStages
           \/ call' = call /\ Settling
    PROVE  SearchKept'
<1>1. stage' \in SearchStages => call'.kind = "search"
    BY DEF IInv, StagesOK
<1>2. Settling => call.kind # "search"
    BY DEF Settling, Plan
<1> QED
    BY <1>1, <1>2, SearchUntouched

\* Every step keeps what a search has.
LEMMA NextKeeps ==
    ASSUME IInv, IInv', SearchKept, [Next]_vars
    PROVE  SearchKept'
<1>1. CASE Mine \/ Reorganize \/ Finalize
    BY <1>1, ChainKeeps
<1>2. CASE Read \/ ParityRead \/ LogRead
    <2>1. /\ stage = "idle" /\ stage' = "done"
          /\ UNCHANGED <<results, entries, selection>>
        BY <1>2 DEF Read, ParityRead, LogRead, ReadAt, Observe
    <2> QED
        BY <2>1, OthersKeep DEF SearchStages
<1>3. ASSUME NEW block \in CallerBlocks, NEW kind \in DOMAIN Plan, NEW r \in Refs,
             StartSettlement(kind, r, block)
      PROVE  SearchKept'
    <2>1. /\ stage = "idle" /\ call'.kind = kind
          /\ UNCHANGED <<results, entries, selection>>
        BY <1>3 DEF StartSettlement
    <2>2. stage' \notin SearchStages
        BY <2>1 DEF IInv, StagesOK, Plan
    <2> QED
        BY <2>1, <2>2, OthersKeep
<1>4. ASSUME NEW block \in CallerBlocks, NEW prefs \in Preferences,
             StartSearch(block, prefs)
      PROVE  SearchKept'
    <2>1. /\ stage = "idle" /\ call'.prefs = prefs
          /\ UNCHANGED <<results, entries, selection>>
        BY <1>4 DEF StartSearch
    <2> QED
        BY <2>1, SearchUntouched
<1>5. CASE ReceiptAnswered \/ EffectAnswered \/ PartyAnswered
    <2>1. /\ stage \in SettlementStages /\ UNCHANGED call
          /\ UNCHANGED <<results, entries, selection>>
        BY <1>5 DEF ReceiptAnswered, EffectAnswered, PartyAnswered, Settle, Found,
                    SettlementStages
    <2>2. Settling /\ stage # "done"
        BY <2>1 DEF IInv, StagesOK, SettlementStages
    <2> QED
        BY <2>1, <2>2, OthersKeep
<1>6. CASE SearchAnswered
    BY <1>6, SearchAnsweredKeeps
<1>7. CASE CardAnswered
    BY <1>7, CardAnsweredKeeps
<1>8. CASE RuntimeAnswered
    BY <1>8, RuntimeAnsweredKeeps
<1>9. CASE RequestFailed
    <2>1. /\ stage # "done" /\ stage' = "rejected"
          /\ UNCHANGED <<results, entries, selection>>
        BY <1>9 DEF RequestFailed
    <2> QED
        BY <2>1, OthersKeep DEF SearchStages
<1>10. CASE UNCHANGED vars
    BY <1>10 DEF vars, SearchKept, Selected, Apart, Matches
<1> QED
    BY <1>1, <1>2, <1>3, <1>4, <1>5, <1>6, <1>7, <1>8, <1>9, <1>10 DEF Next

\* What is selected is selected of the results of the search, each joined
\* once, with the preferences of the call.
THEOREM SearchInvariance == Spec => []SearchKept
<1>1. Init => SearchKept
    BY DEF Init, SearchKept, SearchStages, Apart, Matches
<1>2. IInv /\ IInv' /\ SearchKept /\ [Next]_vars => SearchKept'
    BY NextKeeps
<1> QED
    BY <1>1, <1>2, RuntimeInvariance, PTL DEF Spec

\* What was joined is what the rank and the preferences look at.
LEMMA EntryFacts ==
    ASSUME IInv, SearchKept
    PROVE  /\ Len(entries) \in Nat /\ DOMAIN entries = 1 .. Len(entries)
           /\ \A i \in 1 .. Len(entries) :
               /\ IsEntry(entries[i]) /\ entries[i] # Undefined
               /\ \A o \in Offers : AsProvider(entries[i], o).card # Undefined
           /\ \A i, j \in 1 .. Len(entries) :
                entries[i].search.node = entries[j].search.node => i = j
<1>1. /\ entries \in Seq(Entries) /\ Len(entries) \in Nat
      /\ DOMAIN entries = 1 .. Len(entries)
    BY DEF IInv, SearchOK
<1>2. ASSUME NEW i \in 1 .. Len(entries)
      PROVE  /\ IsEntry(entries[i]) /\ entries[i] # Undefined
             /\ \A o \in Offers : AsProvider(entries[i], o).card # Undefined
    <2>1. entries[i] \in Entries /\ entries[i].search \in Results
        <3>1. entries[i] \in Entries
            BY <1>1
        <3> QED
            BY <3>1 DEF Entries
    <2>2. IsEntry(entries[i])
        BY <2>1, RuntimeAssumption DEF IsEntry
    <2> QED
        BY <2>1, <2>2, EntriesAssumption
<1>3. \A i, j \in 1 .. Len(entries) :
        entries[i].search.node = entries[j].search.node => i = j
    BY <1>1 DEF SearchKept, Apart, Matches
<1> QED
    BY <1>1, <1>2, <1>3

\* The surface chosen and its diagnostics, computed apart, agree.
THEOREM SurfacesAreExplained == Spec => []SurfaceExplained
<1>1. ASSUME IInv, SearchKept, selection # Undefined
      PROVE  SurfaceExplained
    <2> DEFINE n == Len(entries)
               prefs == call.prefs
               diagnosed(i) == selection.diagnostics[i]
               fit == {d.entry : d \in
                        {e \in ToSet(selection.diagnostics) : e.preferred}}
    <2>1. /\ selection.chosen = SelectSurface(RankSurfaces(entries), prefs)
          /\ selection.diagnostics = DiagnoseSurfaces(entries, prefs)
        BY <1>1 DEF SearchKept, Selected, Selection
    <2>2. /\ n \in Nat /\ DOMAIN entries = 1 .. n
          /\ \A i \in 1 .. n : IsEntry(entries[i]) /\ entries[i] # Undefined
          /\ \A i, j \in 1 .. n :
                entries[i].search.node = entries[j].search.node => i = j
        BY <1>1, EntryFacts
    <2>3. IsBestSurface(selection.chosen, entries, prefs)
        <3> HIDE DEF n, prefs
        <3> QED
            BY <2>1, <2>2, BestOfSurfaces
    <2>4. /\ DOMAIN selection.diagnostics = 1 .. n
          /\ \A i \in 1 .. n :
                /\ diagnosed(i).entry = entries[i]
                /\ diagnosed(i).preferred <=> SurfaceFits(entries[i], prefs)
        BY <2>1, <2>2, SurfaceTrustIsExplained DEF DiagnoseSurfaces, SurfaceFits
    <2> HIDE DEF n, prefs
    <2>5. \A e : e \in fit <=>
            \E i \in 1 .. n : e = entries[i] /\ SurfaceFits(entries[i], prefs)
        BY <2>4 DEF ToSet
    <2> HIDE DEF fit, diagnosed
    <2>6. CASE \A i \in 1 .. n : ~SurfaceFits(entries[i], prefs)
        <3>1. selection.chosen = Undefined /\ fit = {}
            BY <2>2, <2>3, <2>5, <2>6 DEF IsBestSurface
        <3> QED
            BY <3>1 DEF SurfaceExplained, fit
    <2>7. CASE ~ \A i \in 1 .. n : ~SurfaceFits(entries[i], prefs)
        <3>1. PICK i \in 1 .. n :
                /\ selection.chosen = entries[i] /\ SurfaceFits(entries[i], prefs)
                /\ \A j \in 1 .. n :
                    SurfaceFits(entries[j], prefs) =>
                        ~SurfaceBefore(entries[j], entries[i])
            BY <2>2, <2>3, <2>7 DEF IsBestSurface
        <3>2. selection.chosen # Undefined /\ selection.chosen \in fit
            BY <2>2, <2>5, <3>1
        <3>3. ASSUME NEW e \in fit
              PROVE  TrustScore(e) <= TrustScore(selection.chosen)
            <4>1. PICK j \in 1 .. n :
                    e = entries[j] /\ SurfaceFits(entries[j], prefs)
                BY <2>5
            <4>2. ~(TrustScore(entries[j]) > TrustScore(entries[i]))
                BY <3>1, <4>1 DEF SurfaceBefore
            <4>3. TrustScore(entries[j]) \in Nat /\ TrustScore(entries[i]) \in Nat
                BY <2>2, ScoreType
            <4> QED
                BY <3>1, <4>1, <4>2, <4>3
        <3> QED
            BY <3>2, <3>3 DEF SurfaceExplained, fit
    <2> QED
        BY <2>6, <2>7
<1>2. IInv /\ SearchKept => SurfaceExplained
    BY <1>1 DEF SurfaceExplained
<1> QED
    BY <1>2, RuntimeInvariance, SearchInvariance, PTL

\* The surface a search chooses stands for the provider agentDiscovery would
\* choose, whatever the agents' cards offer, unless others that fit make an
\* offer its policy prefers; it would then choose one of those.
THEOREM SelectionsAgree == Spec => []AgreesWithDiscovery
<1> DEFINE kept == Sorted(entries, {i \in DOMAIN entries :
                                       ~PackageRefused(entries[i])}, {})
<1>1. ASSUME IInv, SearchKept, selection # Undefined, NEW family,
             NEW offers \in [DOMAIN kept -> Offers]
      PROVE  SameButForOffers(selection.chosen, kept, offers,
                              ExecutionPolicy(family), call.prefs)
    <2>1. /\ selection.chosen = SelectSurface(RankSurfaces(entries), call.prefs)
          /\ IsSurfacePreference(call.prefs)
        BY <1>1, RuntimeAssumption
        DEF SearchKept, Selected, Selection, IsSurfacePreference
    <2>2. IsPolicy(ExecutionPolicy(family))
        BY PolicyType
    <2>3. /\ Undefined \notin Nat
          /\ Len(entries) \in Nat /\ DOMAIN entries = 1 .. Len(entries)
          /\ \A i \in 1 .. Len(entries) :
               /\ IsEntry(entries[i]) /\ entries[i] # Undefined
               /\ \A o \in Offers : AsProvider(entries[i], o).card # Undefined
          /\ \A i, j \in 1 .. Len(entries) :
                entries[i].search.node = entries[j].search.node => i = j
        BY <1>1, EntryFacts, RuntimeAssumption
    <2>4. \A o \in Offers : IsOffer(o)
        BY RuntimeAssumption DEF IsOffer, Fees
    <2>5. kept = Sorted(entries, {i \in DOMAIN entries :
                                     ~PackageRefused(entries[i])}, {})
        OBVIOUS
    <2> HIDE DEF kept
    <2>6. \A k \in DOMAIN kept : offers[k] \in Offers
        BY <1>1
    <2>7. \A k \in DOMAIN kept :
            /\ IsOffer(offers[k])
            /\ \A i \in 1 .. Len(entries) :
                AsProvider(entries[i], offers[k]).card # Undefined
        BY <2>3, <2>4, <2>6
    <2>8. ASSUME NEW n, n = Len(entries)
          PROVE  SameButForOffers(SelectSurface(RankSurfaces(entries), call.prefs),
                                  kept, offers, ExecutionPolicy(family), call.prefs)
        <3>1. /\ n \in Nat /\ DOMAIN entries = 1 .. n
              /\ \A i \in 1 .. n : IsEntry(entries[i]) /\ entries[i] # Undefined
              /\ \A i, j \in 1 .. n :
                    entries[i].search.node = entries[j].search.node => i = j
              /\ \A k \in DOMAIN kept :
                    /\ IsOffer(offers[k])
                    /\ \A i \in 1 .. n :
                        AsProvider(entries[i], offers[k]).card # Undefined
            BY <2>3, <2>7, <2>8
        <3> QED
            BY ONLY <2>1, <2>2, <2>3, <2>5, <3>1, ChoicesAgree
    <2> QED
        BY <2>1, <2>8
<1>2. IInv /\ SearchKept => AgreesWithDiscovery
    BY <1>1 DEF AgreesWithDiscovery
<1> QED
    BY <1>2, RuntimeInvariance, SearchInvariance, PTL
=============================================================================
