---------------------------- MODULE AgentRuntime ----------------------------
(***************************************************************************)
(* The calls of src/src/surfaces/agentRuntime.ts and runtimeSettlement.ts, *)
(* which join what several requests return: a receipt, its settlement and  *)
(* the contracts of its parties; a search, the cards of its results and    *)
(* the contracts behind them.  The requests of a call run one after the    *)
(* other while the chain goes on, and only some of them carry the block    *)
(* the caller asked for.                                                   *)
(***************************************************************************)
EXTENDS SurfaceSelection

CONSTANTS
    Thrown,
    Addresses,      \* of contracts
    Codes,          \* metadata of the code at an address, Undefined for none
    Refs,           \* receipts
    SenderOf, RecipientOf,  \* parties of a receipt: an address, or Undefined
                            \* when it is not a valid one
    Results,        \* search results: [node, trust, modes]; node 0 is the
                    \* empty nodeRecord
    Preferences,
    Offers,         \* a card's entry for the capability, Undefined for none
    CallerBlocks,   \* blocks callers give
    MaxResults, MaxHeight, MaxBlocks    \* bounds

Client == INSTANCE PublicClient

\* References are sequences; the empty one is 0x.  A surface has an address.
ASSUME RuntimeAssumption ==
    /\ Undefined \notin Addresses /\ Undefined \notin Refs
    /\ Refs \subseteq Seq(STRING) \ {<<>>}
    /\ SenderOf \in [Refs -> Addresses \cup {Undefined}]
    /\ RecipientOf \in [Refs -> Addresses \cup {Undefined}]
    /\ \A c \in Codes : c # Undefined => "address" \in DOMAIN c
    /\ {Undefined, Thrown} \cap [quantity : Nat] = {}
    /\ Undefined \notin Nat
    /\ \A r \in Results :
        /\ r.node \in Nat
        /\ r.trust # Undefined =>
            /\ {r.trust.registered, r.trust.suspended, r.trust.onchain}
                \subseteq BOOLEAN
            /\ r.trust.score \in Nat \cup {Undefined}
    /\ \A p \in Preferences : p.minTrust \in Nat /\ p.package \in BOOLEAN
    /\ \A o \in Offers \ {Undefined} :
        {o.perRequest, o.session} \subseteq Nat \cup {Undefined}
    /\ MaxHeight \in Nat /\ MaxBlocks \in Nat

VARIABLES
    chain,      \* blocks: [id, code, receipts], block 0 first
    final,      \* number of the last block that cannot be replaced
    ids,        \* blocks made so far
    call,       \* [kind, ref, block, prefs, final, replaced] of the call
    stage,      \* the request it waits for; "idle", "done" or "rejected"
    parts,      \* of a settlement: [receipt, effect, sender, recipient]
    results,    \* of a search
    card,       \* the contract address in the card of the result under way
    entries,    \* results joined with their runtimes so far
    selection,  \* [chosen, diagnostics]
    observed    \* history: [from, to, final, ids] of a read, Undefined before

chainVars == <<chain, final, ids>>
vars == <<chain, final, ids, call, stage, parts, results, card, entries,
          selection, observed>>

NoParts == [receipt |-> Undefined, effect |-> Undefined,
            sender |-> Undefined, recipient |-> Undefined]

Block(id, code, receipts) == [id |-> id, code |-> code, receipts |-> receipts]

Init ==
    /\ \E receipts \in [Refs -> {"none", "open"}] :
        chain = <<Block(0, [a \in Addresses |-> Undefined], receipts)>>
    /\ final = 0
    /\ ids = 1
    /\ call = Undefined
    /\ stage = "idle"
    /\ parts = NoParts
    /\ results = <<>>
    /\ card = Undefined
    /\ entries = <<>>
    /\ selection = Undefined
    /\ observed = Undefined

-----------------------------------------------------------------------------
(***************************************************************************)
(* The chain (external).                                                   *)
(***************************************************************************)
Tip == chain[Len(chain)]

\* What one block may change: nothing, the code at an address, a receipt.
Successors(b) ==
    {<<b.code, b.receipts>>}
    \cup {<<[b.code EXCEPT ![a] = c], b.receipts>> : a \in Addresses, c \in Codes}
    \cup {<<b.code, [b.receipts EXCEPT ![r] =
                IF @ = "none" THEN "open" ELSE "settled"]>> : r \in Refs}

\* A block is added, or one that is not final replaces the last one.  Bound:
\* the chain goes on until the call is over, or after a single read.
Grow(base) ==
    /\ ids < MaxBlocks
    /\ stage \in {"done", "rejected"} => observed # Undefined
    /\ \E s \in Successors(base[Len(base)]) :
        chain' = Append(base, Block(ids, s[1], s[2]))
    /\ ids' = ids + 1
    /\ UNCHANGED <<final, stage, parts, results, card, entries, selection,
                   observed>>

Mine ==
    /\ Len(chain) <= MaxHeight
    /\ Grow(chain)
    /\ UNCHANGED call

Reorganize ==
    /\ Len(chain) - 1 > final
    /\ Grow(SubSeq(chain, 1, Len(chain) - 1))
    /\ call' = IF call = Undefined THEN call
               ELSE [call EXCEPT !.replaced = TRUE]

Finalize ==
    /\ Len(chain) - 1 > final
    /\ stage \in {"done", "rejected"} => observed # Undefined
    /\ final' = final + 1
    /\ UNCHANGED <<chain, ids, call, stage, parts, results, card, entries,
                   selection, observed>>

\* The number of the block a request means, if the node has it.
NumberOf(requested) ==
    IF requested = Undefined THEN Len(chain) - 1
    ELSE IF requested = Thrown THEN -1
    ELSE IF DOMAIN requested = {"quantity"} THEN requested.quantity
    ELSE CASE requested.tag = "earliest" -> 0
           [] requested.tag \in {"safe", "finalized"} -> final
           [] OTHER -> Len(chain) - 1

Known(requested) == NumberOf(requested) \in 0 .. Len(chain) - 1
BlockAt(requested) == chain[NumberOf(requested) + 1]

-----------------------------------------------------------------------------
(***************************************************************************)
(* One read, of any method that reads by tag or number, or by its name in  *)
(* goClientParity; or of the logs of a range or of one block.              *)
(***************************************************************************)
Observe(from, to, blocks) ==
    /\ stage' = "done"
    /\ observed' = [from |-> from, to |-> to, final |-> final,
                    ids |-> [i \in DOMAIN blocks |-> blocks[i].id]]
    /\ UNCHANGED <<chainVars, call, parts, results, card, entries, selection>>

ReadAt(block, requested) ==
    Known(requested) /\ Observe(block, block, <<BlockAt(requested)>>)

Read ==
    stage = "idle" /\ \E m \in DOMAIN Client!DefaultBlock, block \in CallerBlocks :
        /\ Client!DefaultBlock[m] \notin {"none", "fixed", "hash"}
        /\ Client!DefaultBlock[m] = "given" => block # Undefined
        /\ ReadAt(block, Client!RequestBlock(m, block))

ParityRead ==
    stage = "idle" /\ \E f \in {"balanceAt", "storageAt", "codeAt", "nonceAt", "callContract",
              "callContractWithOverrides", "blockByNumber", "headerByNumber"},
       block \in CallerBlocks : ReadAt(block, Client!ParityBlock(f, block))

\* getLogs, or newFilter and the logs of the filter.  A caller gives the hash
\* of a block or a range.
LogRead ==
    stage = "idle" /\
    \/ \E from, to \in CallerBlocks, method \in {"getLogs", "newFilter"} :
        LET filter == [blockHash |-> Undefined, fromBlock |-> from,
                       toBlock |-> to]
            range == IF method = "getLogs" THEN Client!LogFilter(filter)
                     ELSE Client!NewFilter(filter)
        IN  /\ Known(range.fromBlock) /\ Known(range.toBlock)
            /\ Observe(from, to, SubSeq(chain, NumberOf(range.fromBlock) + 1,
                                        NumberOf(range.toBlock) + 1))
    \/ \E i \in DOMAIN chain :
        LET filter == Client!LogFilter([blockHash |-> chain[i].id,
                          fromBlock |-> Undefined, toBlock |-> Undefined])
        IN  Observe(Undefined, Undefined,
                    SelectSeq(chain, LAMBDA b : b.id = filter.blockHash))

-----------------------------------------------------------------------------
(***************************************************************************)
(* Settlements.  Plan[kind] are the parts a call asks for, in order.       *)
(***************************************************************************)
Plan ==
    [getRuntimeReceiptSurface |-> <<"receipt", "effect", "sender", "recipient">>,
     getSettlementEffectSurface |->
         <<"effect", "receipt", "sender", "recipient">>,
     inspectRuntimeReceipt |-> <<"receipt", "effect">>,
     inspectSettlementEffect |-> <<"effect", "receipt">>]

\* The calls that show the contracts of the parties.
WithParties == {"getRuntimeReceiptSurface", "getSettlementEffectSurface"}

\* The settlement that settles a receipt (external).
SettlementOf(r) == <<"settlement">> \o r

First == Plan[call.kind][1]

\* A reference that is there and is not 0x, the empty one.
NoRef == <<>>
Given(ref) == ref \notin {Undefined, NoRef}

\* The reference the second part is asked for with.
Link(found) ==
    IF First = "receipt" THEN found.receipt.settlement ELSE found.effect.receipt

Party(found, p) ==
    IF p = "sender" THEN found[First].sender ELSE found[First].recipient

\* The part is asked for, given what was found before it.
Needed(p, found) ==
    \/ p = First
    \/ p \in {"receipt", "effect"} /\ Given(Link(found))
    \/ p \in {"sender", "recipient"} /\ Party(found, p) # Undefined

StartSettlement(kind, r, block) ==
    /\ stage = "idle"
    /\ call' = [kind |-> kind,
                ref |-> IF Plan[kind][1] = "receipt" THEN r
                        ELSE SettlementOf(r), block |-> block, prefs |-> Undefined,
                final |-> final, replaced |-> FALSE]
    /\ stage' = Plan[kind][1]
    /\ UNCHANGED <<chainVars, parts, results, card, entries, selection,
                   observed>>

\* The call has a part and goes on to the next one it needs.
Found(part) ==
    LET plan == Plan[call.kind]
        found == [parts EXCEPT ![stage] = part]
        later == {i \in DOMAIN plan : /\ \E j \in 1 .. i - 1 : plan[j] = stage
                                      /\ Needed(plan[i], found)}
    IN  /\ parts' = found
        /\ stage' = IF later = {} THEN "done"
                    ELSE plan[CHOOSE i \in later : \A j \in later : i <= j]
        /\ UNCHANGED <<chainVars, call, results, card, entries, selection,
                       observed>>

ReceiptOf(r, settlement) ==
    [ref |-> r, sender |-> SenderOf[r], recipient |-> RecipientOf[r],
     settlement |-> settlement]

EffectOf(r) ==
    [ref |-> SettlementOf(r), receipt |-> r, sender |-> SenderOf[r],
     recipient |-> RecipientOf[r]]

Calls ==
    [kind : DOMAIN Plan \cup {"search"},
     ref : Refs \cup {SettlementOf(r) : r \in Refs} \cup {Undefined},
     block : CallerBlocks, prefs : Preferences \cup {Undefined},
     final : Nat, replaced : BOOLEAN]

\* What is there is not undefined.
ASSUME PartsAssumption ==
    /\ Undefined \notin Calls
    /\ \A r \in Refs :
        /\ SettlementOf(r) # Undefined /\ EffectOf(r) # Undefined
        /\ \A s \in {SettlementOf(r), Undefined, NoRef} :
            ReceiptOf(r, s) # Undefined

\* What settlement_getRuntimeReceipt and settlement_getSettlementEffect
\* return, from the last block (external); null if there is none.
ReceiptIn(block, r) ==
    IF r \notin Refs \/ block.receipts[r] = "none" THEN {Undefined}
    ELSE IF block.receipts[r] = "settled" THEN {ReceiptOf(r, SettlementOf(r))}
    ELSE {ReceiptOf(r, Undefined), ReceiptOf(r, NoRef)}

EffectIn(block, s) ==
    LET settled == {r \in Refs : /\ SettlementOf(r) = s
                                 /\ block.receipts[r] = "settled"}
    IN  IF settled = {} THEN {Undefined} ELSE {EffectOf(r) : r \in settled}

\* Without the first part there is nothing to go on with: reading its
\* reference throws.
Settle(part) ==
    IF stage = First /\ part = Undefined
    THEN /\ stage' = "rejected"
         /\ UNCHANGED <<chainVars, call, parts, results, card, entries,
                        selection, observed>>
    ELSE Found(part)

\* Mutated form: the second request is made with the caller's reference.
RefOfCaller == call.ref

RefOf == IF stage = First THEN call.ref ELSE Link(parts)

ReceiptAnswered ==
    /\ stage = "receipt"
    /\ \E r \in ReceiptIn(Tip, RefOf) : Settle(r)

EffectAnswered ==
    /\ stage = "effect"
    /\ \E e \in EffectIn(Tip, RefOf) : Settle(e)

\* getAgentRuntimeSurface: the contract's metadata, null if there is none.
Runtime(block, a) ==
    IF block.code[a] = Undefined THEN Undefined
    ELSE NormalizeRuntime([block.code[a] EXCEPT !.address = a])

Surfaces ==
    {Undefined} \cup {NormalizeRuntime([c EXCEPT !.address = a]) :
                          c \in Codes \ {Undefined}, a \in Addresses}

Entries == [search : Results, runtime : Surfaces]

\* An entry is there, and so is the card of the provider it stands for.
ASSUME EntriesAssumption ==
    /\ Undefined \notin Entries
    /\ \A e \in Entries, o \in Offers : AsProvider(e, o).card # Undefined

\* Mutated form: the contracts are read where the settlement was, at the tip.
MetadataBlockTip == Client!RequestBlock("getContractMetadata", Undefined)

MetadataBlock == Client!RequestBlock("getContractMetadata", call.block)

PartyAnswered ==
    /\ stage \in {"sender", "recipient"}
    /\ Known(MetadataBlock)
    /\ Found(Runtime(BlockAt(MetadataBlock), Party(parts, stage)))

-----------------------------------------------------------------------------
(***************************************************************************)
(* Searches: searchPreferredAgentSurfaces and its relatives.               *)
(***************************************************************************)
StartSearch(block, prefs) ==
    /\ stage = "idle"
    /\ call' = [kind |-> "search", ref |-> Undefined, block |-> block,
                prefs |-> prefs, final |-> final, replaced |-> FALSE]
    /\ stage' = "search"
    /\ UNCHANGED <<chainVars, parts, results, card, entries, selection,
                   observed>>

\* joinSearchResults goes on after the entries joined; a result without a
\* nodeRecord has no surface.  After the last one, the choice.
Join(joined, of) ==
    LET plain == {i \in Len(joined) + 1 .. Len(of) : of[i].node # 0}
        next == IF plain = {} THEN Len(of) + 1
                ELSE CHOOSE i \in plain : \A j \in plain : i <= j
        done == joined \o [i \in 1 .. next - 1 - Len(joined) |->
                    [search |-> of[Len(joined) + i], runtime |-> Undefined]]
    IN  /\ entries' = done
        /\ IF next <= Len(of)
           THEN stage' = "card" /\ UNCHANGED selection
           ELSE /\ stage' = "done"
                /\ selection' = [chosen |-> SelectSurface(RankSurfaces(done),
                                                          call.prefs),
                                 diagnostics |-> DiagnoseSurfaces(done,
                                                          call.prefs)]

SearchAnswered ==
    /\ stage = "search"
    /\ \E n \in 0 .. MaxResults : \E found \in [1 .. n -> Results] :
        /\ \A i, j \in 1 .. n : found[i].node = found[j].node => i = j
        /\ results' = found
        /\ Join(<<>>, found)
    /\ UNCHANGED <<chainVars, call, parts, card, observed>>

\* The card of a result: its contract's address, or Undefined when it has
\* none that is valid; then there is no runtime.
CardAnswered ==
    /\ stage = "card"
    /\ \E a \in Addresses \cup {Undefined} :
        IF a = Undefined
        THEN /\ Join(Append(entries, [search |-> results[Len(entries) + 1],
                                      runtime |-> Undefined]), results)
             /\ UNCHANGED card
        ELSE /\ card' = a
             /\ stage' = "runtime"
             /\ UNCHANGED <<entries, selection>>
    /\ UNCHANGED <<chainVars, call, parts, results, observed>>

RuntimeAnswered ==
    /\ stage = "runtime"
    /\ Known(MetadataBlock)
    /\ Join(Append(entries, [search |-> results[Len(entries) + 1],
                             runtime |-> Runtime(BlockAt(MetadataBlock), card)]),
            results)
    /\ UNCHANGED <<chainVars, call, parts, results, card, observed>>

\* Any request may fail: the call is rejected.
RequestFailed ==
    /\ stage \notin {"idle", "done", "rejected"}
    /\ stage' = "rejected"
    /\ UNCHANGED <<chainVars, call, parts, results, card, entries, selection,
                   observed>>

Next ==
    \/ Mine \/ Reorganize \/ Finalize
    \/ Read \/ ParityRead \/ LogRead
    \/ \E block \in CallerBlocks :
        \/ \E kind \in DOMAIN Plan, r \in Refs : StartSettlement(kind, r, block)
        \/ \E prefs \in Preferences : StartSearch(block, prefs)
    \/ ReceiptAnswered \/ EffectAnswered \/ PartyAnswered
    \/ SearchAnswered \/ CardAnswered \/ RuntimeAnswered
    \/ RequestFailed

Spec == Init /\ [][Next]_vars
-----------------------------------------------------------------------------
(***************************************************************************)
(* Properties.                                                             *)
(***************************************************************************)
Pinned(block, last) == Client!IsNumber(block) /\ block.number \in 0 .. last

(***************************************************************************)
(* A read of blocks that were final when it was made is repeatable: every  *)
(* method that takes a block or a range, under both its names, describes   *)
(* those blocks, block 0 included, whatever the chain does.                *)
(***************************************************************************)
FinalReadsRepeat ==
    /\ observed # Undefined
    /\ Pinned(observed.from, observed.final)
    /\ Pinned(observed.to, observed.final)
    => LET meant == SubSeq(chain, observed.from.number + 1,
                           observed.to.number + 1)
       IN  observed.ids = [i \in DOMAIN meant |-> meant[i].id]

(***************************************************************************)
(* All contracts a surface shows, those behind the results of a search and *)
(* those of the parties of a receipt or of an effect, are those of the     *)
(* block asked for, if it was final when the call began, however long the  *)
(* call took and whatever its parts without a block say.                   *)
(***************************************************************************)
RuntimesOfOneBlock ==
    call # Undefined /\ Pinned(call.block, call.final) =>
        LET block == chain[call.block.number + 1]
        IN  /\ \A i \in DOMAIN entries :
                entries[i].runtime # Undefined =>
                    entries[i].runtime =
                        Runtime(block, entries[i].runtime.address)
            /\ stage = "done" /\ call.kind \in WithParties =>
                \A p \in {"sender", "recipient"} :
                    Party(parts, p) # Undefined =>
                        parts[p] = Runtime(block, Party(parts, p))

(***************************************************************************)
(* A settlement is whole: the receipt and the effect of a surface refer to *)
(* each other.  One of them may be missing or older only if the receipt    *)
(* was not settled when it was read first, or a block was replaced between *)
(* the two reads, neither of which names a block.                          *)
(***************************************************************************)
SettlementIsWhole ==
    stage = "done" /\ call # Undefined /\ call.kind \in DOMAIN Plan =>
        LET receipt == parts.receipt
            effect == parts.effect
            settled == receipt # Undefined /\ Given(receipt.settlement)
        IN  /\ parts[First].ref = call.ref
            /\ receipt # Undefined /\ effect # Undefined =>
                /\ effect.receipt = receipt.ref
                /\ settled => receipt.settlement = effect.ref
            /\ ~call.replaced => (settled <=> effect # Undefined)

(***************************************************************************)
(* The surface chosen and its diagnostics agree although they are computed *)
(* apart: it is one of those diagnosed as preferred, no other of them has  *)
(* a higher score, and there is none only if no entry is preferred.        *)
(***************************************************************************)
SurfaceExplained ==
    selection # Undefined =>
        LET fit == {d.entry : d \in
                {e \in ToSet(selection.diagnostics) : e.preferred}}
        IN  IF selection.chosen = Undefined THEN fit = {}
            ELSE /\ selection.chosen \in fit
                 /\ \A e \in fit : TrustScore(e) <= TrustScore(selection.chosen)

(***************************************************************************)
(* The second selection of the repository is the first one but for offers: *)
(* where cards and chain say the same of package and routing, the agent    *)
(* chosen is the one agentDiscovery chooses among the agents whose package *)
(* the chain does not refuse, whatever their cards offer, under any        *)
(* policy; unless another that fits as well offers a mode the policy       *)
(* prefers or, all else the same, a lower fee.  These agentDiscovery goes  *)
(* by and agentRuntime does not, and it then chooses such a one.           *)
(***************************************************************************)
AgreesWithDiscovery ==
    selection # Undefined =>
        LET kept == Sorted(entries, {i \in DOMAIN entries :
                                        ~PackageRefused(entries[i])}, {})
        IN  \A family \in {"oracle", "sponsor"},
               offers \in [DOMAIN kept -> Offers] :
                SameButForOffers(selection.chosen, kept, offers,
                                 ExecutionPolicy(family), call.prefs)
=============================================================================
