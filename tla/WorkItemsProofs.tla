--------------------------- MODULE WorkItemsProofs ---------------------------
(***************************************************************************)
(* Proofs about WorkItems and AgentRegistry: types, the order of the       *)
(* writes, what is on disk when the program dies, and that neither work    *)
(* items nor their agents mix, for any number of handlers, items, agents,  *)
(* writes and crashes.                                                     *)
(***************************************************************************)
EXTENDS WorkItems, TLAPS

Ops == {"none", "create", "reset", "status", "newItem", "delete"}
Pcs == {"idle", "get", "mkdir", "write", "hold", "archive",
        "makeItem", "manifest", "rmAgents", "rmItem"}
CallRecords == [op : Ops, pc : Pcs, item : 0..MaxItems, id : 0..MaxIds, after : 0..MaxWrites]
Entries == [item : Items, rec : Records, new : BOOLEAN, step : {"asked", "tmp", "removed"}]

(* Which fields of a call are in use.                                      *)
Slots ==
    \A c \in Calls :
        /\ call[c].op # "none" => call[c].item \in Items
        /\ call[c].op = "reset" \/ (call[c].op = "status" /\ call[c].pc = "hold") => call[c].id \in Ids

TypeInv == TypeOK /\ Slots /\ Len(chain) <= writes

-----------------------------------------------------------------------------
(* How the helpers of the specification change calls and the chain.        *)
LEMMA GotoFacts ==
    ASSUME NEW c \in Calls, NEW pc \in Pcs, TypeInv, Goto(c, pc)
    PROVE  /\ call' \in [Calls -> CallRecords]
           /\ call'[c].op = call[c].op /\ call'[c].pc = pc
           /\ call'[c].item = call[c].item /\ call'[c].id = call[c].id
           /\ \A d \in Calls : d # c => call'[d] = call[d]
<1>1. call \in [Calls -> CallRecords]
  BY DEF TypeInv, TypeOK, RegistryTypeOK, CallRecords, Ops, Pcs
<1>2. call'[c] = [call[c] EXCEPT !.pc = pc] /\ call[c] \in CallRecords
  BY <1>1 DEF Goto
<1>3. call'[c] \in CallRecords
  BY <1>2 DEF CallRecords
<1> QED
  BY <1>1, <1>2, <1>3 DEF Goto, CallRecords

LEMMA IdleType == IdleCall \in CallRecords
BY RegistryAssumption DEF IdleCall, CallRecords, Ops, Pcs

LEMMA ReturnFacts ==
    ASSUME NEW c \in Calls, TypeInv, Return(c)
    PROVE  /\ call' \in [Calls -> CallRecords]
           /\ call'[c] = IdleCall
           /\ call'[c].op = "none" /\ call'[c].pc = "idle" /\ call'[c].id = 0
           /\ \A d \in Calls : d # c => call'[d] = call[d]
<1>1. call \in [Calls -> CallRecords]
  BY DEF TypeInv, TypeOK, RegistryTypeOK, CallRecords, Ops, Pcs
<1>2. /\ call' \in [Calls -> CallRecords] /\ call'[c] = IdleCall
      /\ \A d \in Calls : d # c => call'[d] = call[d]
  BY <1>1, IdleType DEF Return
<1> QED
  BY <1>2 DEF IdleCall

LEMMA GettingFacts ==
    ASSUME NEW c \in Calls, NEW op \in Ops, NEW i \in Items, NEW id \in 0..MaxIds,
           TypeInv, Getting(c, op, i, id)
    PROVE  /\ call' \in [Calls -> CallRecords]
           /\ call'[c] = [op |-> op, pc |-> "get", item |-> i, id |-> id, after |-> Len(chain)]
           /\ call'[c].op = op /\ call'[c].pc = "get" /\ call'[c].item = i /\ call'[c].id = id
           /\ \A d \in Calls : d # c => call'[d] = call[d]
<1>1. call \in [Calls -> CallRecords]
  BY DEF TypeInv, TypeOK, RegistryTypeOK, CallRecords, Ops, Pcs
<1>2. Len(chain) \in 0..MaxWrites
  <2>1. chain \in Seq(Entries) /\ writes \in 0..MaxWrites
    BY DEF TypeInv, TypeOK, RegistryTypeOK, Entries
  <2>2. Len(chain) \in Nat /\ Len(chain) <= writes
    BY <2>1 DEF TypeInv
  <2> QED
    BY <2>1, <2>2, RegistryAssumption
<1>3. [op |-> op, pc |-> "get", item |-> i, id |-> id, after |-> Len(chain)] \in CallRecords
  BY <1>2, RegistryAssumption DEF CallRecords, Pcs, Items
<1>4. /\ call' \in [Calls -> CallRecords]
      /\ call'[c] = [op |-> op, pc |-> "get", item |-> i, id |-> id, after |-> Len(chain)]
      /\ \A d \in Calls : d # c => call'[d] = call[d]
  BY <1>1, <1>3 DEF Getting
<1> QED
  BY <1>4

LEMMA GettingMoves ==
    ASSUME NEW c \in Calls, NEW op \in Ops, NEW i \in Items, NEW id \in 0..MaxIds,
           TypeInv, Getting(c, op, i, id)
    PROVE  /\ call'[c].op = op /\ call'[c].pc = "get" /\ call'[c].item = i /\ call'[c].id = id
           /\ \A d \in Calls : d # c => call'[d] = call[d]
<1>1. call \in [Calls -> CallRecords]
  BY DEF TypeInv, TypeOK, RegistryTypeOK, CallRecords, Ops, Pcs
<1>2. /\ call'[c] = [op |-> op, pc |-> "get", item |-> i, id |-> id, after |-> Len(chain)]
      /\ \A d \in Calls : d # c => call'[d] = call[d]
  BY <1>1 DEF Getting
<1> QED
  BY <1>2

LEMMA AskFacts ==
    ASSUME NEW i \in Items, NEW id \in Ids, NEW new \in BOOLEAN, TypeInv, Ask(i, id, new)
    PROVE  /\ writes' = writes + 1 /\ writes' \in 0..MaxWrites
           /\ chain' \in Seq(Entries) /\ Len(chain') = Len(chain) + 1 /\ Len(chain') <= writes'
           /\ Len(chain) \in Nat
           /\ \A k \in 1..Len(chain) : chain'[k] = chain[k]
           /\ chain'[Len(chain) + 1] = [item |-> i, rec |-> [id |-> id, ticket |-> writes'],
                                        new |-> new, step |-> "asked"]
<1> DEFINE e == [item |-> i, rec |-> [id |-> id, ticket |-> writes'], new |-> new, step |-> "asked"]
<1>1. chain \in Seq(Entries) /\ writes \in 0..MaxWrites /\ Len(chain) <= writes
  BY DEF TypeInv, TypeOK, RegistryTypeOK, Entries
<1>2. writes' = writes + 1 /\ writes' \in 1..MaxWrites
  BY <1>1, RegistryAssumption DEF Ask
<1>3. e \in Entries
  BY <1>2 DEF Entries, Records
<1>4. chain' = Append(chain, e)
  BY DEF Ask
<1> HIDE DEF e
<1>5. /\ chain' \in Seq(Entries) /\ Len(chain') = Len(chain) + 1 /\ Len(chain) \in Nat
      /\ \A k \in 1..Len(chain) : chain'[k] = chain[k]
      /\ chain'[Len(chain) + 1] = e
  BY <1>1, <1>3, <1>4
<1>6. Len(chain') <= writes' /\ writes' \in 0..MaxWrites
  BY <1>1, <1>2, <1>5, RegistryAssumption
<1> QED
  BY <1>2, <1>5, <1>6 DEF e

LEMMA AskedLast ==
    ASSUME NEW i \in Items, NEW id \in Ids, NEW new \in BOOLEAN, TypeInv, Ask(i, id, new)
    PROVE  \E n \in Nat :
           /\ Len(chain) \in Nat /\ n = Len(chain) + 1 /\ Len(chain') = n /\ n \in 1..n
           /\ \A k \in 1..n : k # n => k < n /\ k \in 1..Len(chain) /\ chain'[k] = chain[k]
           /\ chain'[n].item = i /\ chain'[n].rec.id = id /\ chain'[n].rec.ticket = writes'
           /\ chain'[n].new = new /\ chain'[n].step = "asked"
<1> DEFINE n == Len(chain) + 1
<1>1. /\ Len(chain') = n /\ Len(chain) \in Nat
      /\ \A k \in 1..Len(chain) : chain'[k] = chain[k]
      /\ chain'[n] = [item |-> i, rec |-> [id |-> id, ticket |-> writes'],
                      new |-> new, step |-> "asked"]
  BY AskFacts
<1>2. /\ chain'[n].item = i /\ chain'[n].rec.id = id /\ chain'[n].rec.ticket = writes'
      /\ chain'[n].new = new /\ chain'[n].step = "asked"
  BY <1>1
<1>3. n \in Nat /\ n \in 1..n /\ \A k \in 1..n : k # n => k < n /\ k \in 1..Len(chain)
  BY <1>1
<1>4. n = Len(chain) + 1
  OBVIOUS
<1> HIDE DEF n
<1> QED
  BY <1>1, <1>2, <1>3, <1>4

LEMMA WriteEndsFacts ==
    ASSUME TypeInv, chain # <<>>, WriteEnds, UNCHANGED writes
    PROVE  /\ chain' \in Seq(Entries) /\ Len(chain') = Len(chain) - 1 /\ Len(chain') <= writes'
           /\ Len(chain') \in Nat
           /\ \A k \in 1..Len(chain') : chain'[k] = chain[k + 1]
           /\ call' \in [Calls -> CallRecords]
           /\ \A c \in Calls : /\ call'[c].op = call[c].op /\ call'[c].pc = call[c].pc
                               /\ call'[c].item = call[c].item /\ call'[c].id = call[c].id
<1>1. chain \in Seq(Entries) /\ writes \in 0..MaxWrites /\ Len(chain) <= writes
  BY DEF TypeInv, TypeOK, RegistryTypeOK, Entries
<1>2. chain' = Tail(chain)
  BY DEF WriteEnds
<1>3. /\ chain' \in Seq(Entries) /\ Len(chain') = Len(chain) - 1 /\ Len(chain') \in Nat
      /\ \A k \in 1..Len(chain') : chain'[k] = chain[k + 1]
  BY <1>1, <1>2
<1>4. Len(chain') <= writes'
  BY <1>1, <1>3
<1>5. call \in [Calls -> CallRecords]
  BY DEF TypeInv, TypeOK, RegistryTypeOK, CallRecords, Ops, Pcs
<1>6. ASSUME NEW c \in Calls
      PROVE  /\ call'[c] \in CallRecords
             /\ call'[c].op = call[c].op /\ call'[c].pc = call[c].pc
             /\ call'[c].item = call[c].item /\ call'[c].id = call[c].id
  <2>1. call'[c] = [call[c] EXCEPT !.after = IF call[c].after = 0 THEN 0 ELSE call[c].after - 1]
    BY DEF WriteEnds
  <2>2. call[c] \in CallRecords
    BY <1>5
  <2>3. (IF call[c].after = 0 THEN 0 ELSE call[c].after - 1) \in 0..MaxWrites
    BY <2>2, RegistryAssumption DEF CallRecords
  <2> QED
    BY <2>1, <2>2, <2>3 DEF CallRecords
<1>7. call' \in [Calls -> CallRecords]
  BY <1>6 DEF WriteEnds
<1> QED
  BY <1>3, <1>4, <1>6, <1>7

LEMMA StepFacts ==
    ASSUME TypeInv, chain # <<>>, NEW step \in {"tmp", "removed"},
           chain' = [chain EXCEPT ![1].step = step]
    PROVE  /\ chain' \in Seq(Entries) /\ Len(chain') = Len(chain) /\ Len(chain) \in Nat
           /\ chain'[1].step = step
           /\ \A k \in 1..Len(chain) : k # 1 => chain'[k] = chain[k]
           /\ \A k \in 1..Len(chain) : /\ chain'[k].item = chain[k].item
                                       /\ chain'[k].rec = chain[k].rec
                                       /\ chain'[k].new = chain[k].new
<1>1. chain \in Seq(Entries)
  BY DEF TypeInv, TypeOK, RegistryTypeOK, Entries
<1>2. Len(chain) \in Nat /\ 1 \in 1..Len(chain) /\ chain[1] \in Entries
  BY <1>1
<1> DEFINE e == [chain[1] EXCEPT !.step = step]
<1>3. e \in Entries /\ e.item = chain[1].item /\ e.rec = chain[1].rec
      /\ e.new = chain[1].new /\ e.step = step
  BY <1>2 DEF Entries
<1>4. chain' = [chain EXCEPT ![1] = e]
  OBVIOUS
<1> HIDE DEF e
<1>5. /\ chain' \in Seq(Entries) /\ Len(chain') = Len(chain) /\ chain'[1] = e
      /\ \A k \in 1..Len(chain) : k # 1 => chain'[k] = chain[k]
  BY <1>1, <1>2, <1>3, <1>4
<1> QED
  BY <1>2, <1>3, <1>5

LEMMA HeadFacts ==
    ASSUME TypeInv, chain # <<>>
    PROVE  /\ Len(chain) \in Nat /\ 1 \in 1..Len(chain)
           /\ Head(chain) = chain[1] /\ chain[1] \in Entries
           /\ chain[1].item \in Items /\ chain[1].rec \in Records
<1>1. chain \in Seq(Entries)
  BY DEF TypeInv, TypeOK, RegistryTypeOK, Entries
<1>2. Len(chain) \in Nat /\ 1 \in 1..Len(chain) /\ Head(chain) = chain[1] /\ chain[1] \in Entries
  BY <1>1
<1> QED
  BY <1>2 DEF Entries

-----------------------------------------------------------------------------
(* Type correctness, in five parts.                                        *)
FileTypes ==
    /\ dir \in [Items -> BOOLEAN] /\ agent \in [Items -> Records \cup {None}]
    /\ tmps \in [Items -> SUBSET Records]
ChainTypes == chain \in Seq(Entries) /\ writes \in 0..MaxWrites /\ Len(chain) <= writes
CallTypes == call \in [Calls -> CallRecords] /\ Slots
HistoryTypes ==
    /\ ids \in 0..MaxIds /\ retired \subseteq Ids /\ owner \in [Items -> 0..MaxIds]
    /\ latest \in [Items -> 0..MaxWrites] /\ late \subseteq Items /\ crossed \subseteq Items
ItemTypes ==
    items \in [Items -> Calls \cup {Absent, Bare}] /\ raced \subseteq Items /\ crashes \in 0..MaxCrashes

LEMMA TypeParts ==
    TypeInv <=> FileTypes /\ ChainTypes /\ CallTypes /\ HistoryTypes /\ ItemTypes
BY DEF TypeInv, TypeOK, RegistryTypeOK, FileTypes, ChainTypes, CallTypes, HistoryTypes, ItemTypes,
       Entries, CallRecords, Ops, Pcs

LEMMA TypePartsNext ==
    FileTypes' /\ ChainTypes' /\ CallTypes' /\ HistoryTypes' /\ ItemTypes' => TypeInv'
BY DEF TypeInv, TypeOK, RegistryTypeOK, FileTypes, ChainTypes, CallTypes, HistoryTypes, ItemTypes,
       Entries, CallRecords, Ops, Pcs

(* Slots still hold when one call moves on and the others stay.            *)
LEMMA SlotsMove ==
    ASSUME NEW c \in Calls, Slots, \A d \in Calls : d # c => call'[d] = call[d],
           call'[c].op # "none" => call'[c].item \in Items,
           call'[c].op = "reset" \/ (call'[c].op = "status" /\ call'[c].pc = "hold")
                => call'[c].id \in Ids
    PROVE  Slots'
BY DEF Slots

(* The ids of the files of an item are ids of agents.                      *)
LEMMA IdsAtType ==
    ASSUME FileTypes, NEW i \in Items
    PROVE  IdsAt(i) \subseteq Ids
<1>1. agent[i] \in Records \cup {None} /\ tmps[i] \subseteq Records
  BY DEF FileTypes
<1>2. \A r \in tmps[i] \cup {agent[i]} : r.id \in Ids \cup {0}
  BY <1>1 DEF Records, None
<1> QED
  BY <1>2 DEF IdsAt

LEMMA TypeInit == Init => TypeInv
<1> SUFFICES ASSUME Init PROVE TypeInv
  OBVIOUS
<1> USE DEF Init, RegistryInit
<1>1. FileTypes
  BY DEF FileTypes
<1>2. ChainTypes
  BY RegistryAssumption DEF ChainTypes
<1>3. CallTypes
  BY IdleType DEF CallTypes, Slots, IdleCall
<1>4. HistoryTypes
  BY RegistryAssumption DEF HistoryTypes
<1>5. ItemTypes
  BY ItemsAssumption DEF ItemTypes
<1> QED
  BY <1>1, <1>2, <1>3, <1>4, <1>5, TypeParts

(* A call that moves on, or returns, keeps the calls well typed.           *)
LEMMA GotoTypes ==
    ASSUME NEW c \in Calls, NEW pc \in Pcs, TypeInv, Goto(c, pc),
           call[c].op = "status" => pc # "hold"
    PROVE  CallTypes'
<1>1. Slots /\ (call[c].op # "none" => call[c].item \in Items)
      /\ (call[c].op = "reset" => call[c].id \in Ids)
  BY DEF TypeInv, Slots
<1>2. Slots'
  BY <1>1, GotoFacts, SlotsMove
<1> QED
  BY <1>2, GotoFacts DEF CallTypes

LEMMA ReturnTypes ==
    ASSUME NEW c \in Calls, TypeInv, Return(c)
    PROVE  CallTypes'
<1>1. Slots /\ call'[c].op = "none"
  BY ReturnFacts DEF TypeInv, IdleCall
<1>2. Slots'
  BY <1>1, ReturnFacts, SlotsMove
<1> QED
  BY <1>2, ReturnFacts DEF CallTypes

LEMMA GettingTypes ==
    ASSUME NEW c \in Calls, NEW op \in Ops, NEW i \in Items, NEW id \in 0..MaxIds,
           TypeInv, Getting(c, op, i, id), op = "reset" => id \in Ids
    PROVE  CallTypes'
<1>1. /\ Slots
      /\ call'[c] = [op |-> op, pc |-> "get", item |-> i, id |-> id, after |-> Len(chain)]
      /\ \A d \in Calls : d # c => call'[d] = call[d]
  BY GettingFacts DEF TypeInv
<1>2. Slots'
  BY <1>1, SlotsMove
<1> QED
  BY <1>2, GettingFacts DEF CallTypes

LEMMA BeginMoves ==
    ASSUME NEW c \in Calls, NEW op \in Ops, NEW pc \in Pcs, NEW i \in Items,
           TypeInv, Begin(c, op, pc, i)
    PROVE  /\ call'[c].op = op /\ call'[c].pc = pc /\ call'[c].item = i /\ call'[c].id = 0
           /\ \A d \in Calls : d # c => call'[d] = call[d]
<1>1. call \in [Calls -> CallRecords]
  BY DEF TypeInv, TypeOK, RegistryTypeOK, CallRecords, Ops, Pcs
<1>2. /\ call'[c] = [op |-> op, pc |-> pc, item |-> i, id |-> 0, after |-> 0]
      /\ \A d \in Calls : d # c => call'[d] = call[d]
  BY <1>1 DEF Begin
<1> QED
  BY <1>2

LEMMA BeginTypes ==
    ASSUME NEW c \in Calls, NEW op \in Ops, NEW pc \in Pcs \ {"hold"}, NEW i \in Items,
           op # "reset", TypeInv, Begin(c, op, pc, i)
    PROVE  CallTypes'
<1>1. call \in [Calls -> CallRecords] /\ Slots
  BY DEF TypeInv, TypeOK, RegistryTypeOK, CallRecords, Ops, Pcs
<1>2. [op |-> op, pc |-> pc, item |-> i, id |-> 0, after |-> 0] \in CallRecords
  BY RegistryAssumption DEF CallRecords, Items
<1>3. call' \in [Calls -> CallRecords]
  BY <1>1, <1>2 DEF Begin
<1>4. Slots'
  BY <1>1, BeginMoves, SlotsMove
<1> QED
  BY <1>3, <1>4 DEF CallTypes

(* A step that leaves the variables of a part alone keeps that part.       *)
LEMMA Untouched ==
    ASSUME TypeInv
    PROVE  /\ UNCHANGED fileVars => FileTypes'
           /\ UNCHANGED <<chain, writes>> => ChainTypes'
           /\ UNCHANGED call => CallTypes'
           /\ UNCHANGED <<ids, historyVars>> => HistoryTypes'
           /\ UNCHANGED <<items, raced, crashes>> => ItemTypes'
<1> USE TypeParts
<1>1. UNCHANGED fileVars => FileTypes'
  BY DEF FileTypes, fileVars
<1>2. UNCHANGED <<chain, writes>> => ChainTypes'
  BY DEF ChainTypes
<1>3. UNCHANGED call => CallTypes'
  BY DEF CallTypes, Slots
<1>4. UNCHANGED <<ids, historyVars>> => HistoryTypes'
  BY DEF HistoryTypes, historyVars
<1>5. UNCHANGED <<items, raced, crashes>> => ItemTypes'
  BY DEF ItemTypes
<1> QED
  BY <1>1, <1>2, <1>3, <1>4, <1>5

LEMMA WriteTypes ==
    ASSUME TypeInv, UNCHANGED <<items, raced, crashes>>, WriteTmp \/ WriteRemoves \/ WriteRenames
    PROVE  TypeInv'
<1>. USE TypeParts, TypePartsNext
<1>0. chain # <<>>
  BY DEF WriteTmp, WriteRemoves, WriteRenames
<1>1. /\ FileTypes /\ ChainTypes /\ CallTypes /\ HistoryTypes /\ ItemTypes'
      /\ Head(chain).item \in Items /\ Head(chain).rec \in Records /\ Head(chain).new \in BOOLEAN
  BY <1>0, HeadFacts, Untouched DEF Entries
<1>2. ASSUME WriteEnds, UNCHANGED writes PROVE ChainTypes' /\ CallTypes'
  <2>1. Slots'
    BY <1>0, <1>1, <1>2, WriteEndsFacts DEF Slots, CallTypes
  <2> QED
    BY <1>0, <1>1, <1>2, <2>1, WriteEndsFacts DEF ChainTypes, CallTypes
<1>3. ASSUME NEW step \in {"tmp", "removed"}, chain' = [chain EXCEPT ![1].step = step],
             UNCHANGED writes
      PROVE  ChainTypes'
  BY <1>0, <1>1, <1>3, StepFacts DEF ChainTypes
<1>4. CASE WriteTmp
  <2>1. FileTypes'
    BY <1>1, <1>4 DEF WriteTmp, WriteEnds, FileTypes
  <2>2. HistoryTypes' /\ UNCHANGED writes
    BY <1>4, Untouched DEF WriteTmp, countVars
  <2>3. CASE dir[Head(chain).item]
    <3>1. chain' = [chain EXCEPT ![1].step = "tmp"] /\ UNCHANGED call
      BY <1>4, <2>3 DEF WriteTmp
    <3>2. ChainTypes' /\ CallTypes'
      BY <1>3, <2>2, <3>1, Untouched
    <3> QED
      BY <1>1, <2>1, <2>2, <3>2
  <2>4. CASE ~dir[Head(chain).item]
    <3>1. WriteEnds
      BY <1>4, <2>4 DEF WriteTmp
    <3> QED
      BY <1>1, <1>2, <2>1, <2>2, <3>1
  <2> QED
    BY <2>3, <2>4
<1>5. CASE WriteRemoves
  <2>1. FileTypes'
    BY <1>1, <1>5 DEF WriteRemoves, FileTypes
  <2>2. HistoryTypes' /\ UNCHANGED writes /\ CallTypes'
    BY <1>5, Untouched DEF WriteRemoves, countVars
  <2>3. ChainTypes'
    BY <1>3, <1>5, <2>2 DEF WriteRemoves
  <2> QED
    BY <1>1, <2>1, <2>2, <2>3
<1>6. CASE WriteRenames
  <2>1. FileTypes'
    BY <1>1, <1>6 DEF WriteRenames, FileTypes
  <2>2. HistoryTypes'
    <3>1. Head(chain).rec.id \in 0..MaxIds /\ Head(chain).rec.ticket \in 0..MaxWrites
      BY <1>1, RegistryAssumption DEF Records, Ids
    <3>2. UNCHANGED <<ids, retired, late, crossed>>
      BY <1>6 DEF WriteRenames, countVars
    <3>3. owner' \in [Items -> 0..MaxIds]
      <4>1. \/ UNCHANGED owner
            \/ owner' = [owner EXCEPT ![Head(chain).item] = Head(chain).rec.id]
        BY <1>6 DEF WriteRenames
      <4> QED
        BY <1>1, <3>1, <4>1 DEF HistoryTypes
    <3>4. latest' \in [Items -> 0..MaxWrites]
      <4>1. \/ UNCHANGED latest
            \/ latest' = [latest EXCEPT ![Head(chain).item] = Head(chain).rec.ticket]
        BY <1>1, <1>6 DEF WriteRenames, HistoryTypes
      <4> QED
        BY <1>1, <3>1, <4>1 DEF HistoryTypes
    <3> QED
      BY <1>1, <3>2, <3>3, <3>4 DEF HistoryTypes
  <2>3. ChainTypes' /\ CallTypes'
    BY <1>2, <1>6 DEF WriteRenames, countVars
  <2> QED
    BY <1>1, <2>1, <2>2, <2>3
<1> QED
  BY <1>4, <1>5, <1>6

(* What goes away with the directory of an item.                           *)
LEMMA GoneTypes ==
    ASSUME TypeInv, NEW i \in Items, NEW R \in SUBSET Ids,
           dir' = [dir EXCEPT ![i] = FALSE], agent' = [agent EXCEPT ![i] = None],
           tmps' = [tmps EXCEPT ![i] = {}], owner' = [owner EXCEPT ![i] = 0],
           retired' = retired \cup IdsAt(i) \cup R, crossed' \in {crossed, crossed \cup {i}},
           UNCHANGED <<ids, latest, late>>
    PROVE  FileTypes' /\ HistoryTypes'
<1>1. FileTypes /\ HistoryTypes
  BY TypeParts
<1>2. FileTypes'
  BY <1>1 DEF FileTypes
<1>3. IdsAt(i) \subseteq Ids
  BY <1>1, IdsAtType
<1>4. HistoryTypes'
  BY <1>1, <1>3, RegistryAssumption DEF HistoryTypes
<1> QED
  BY <1>2, <1>4

LEMMA CallTypesStep ==
    ASSUME TypeInv, UNCHANGED <<items, raced, crashes>>, NEW c \in Calls,
           \/ \E i \in Items : AskStatus(c, i) \/ AskReset(c, i)
           \/ Read(c) \/ Archive(c) \/ WriteNew(c) \/ SetStatus(c)
    PROVE  TypeInv'
<1>. USE TypeParts, TypePartsNext
<1>1. /\ FileTypes /\ ChainTypes /\ CallTypes /\ HistoryTypes /\ ItemTypes'
      /\ call[c] \in CallRecords /\ (call[c].op # "none" => call[c].item \in Items)
      /\ (call[c].op = "reset" \/ (call[c].op = "status" /\ call[c].pc = "hold") => call[c].id \in Ids)
  BY Untouched DEF CallTypes, Slots
<1>2. ASSUME NEW i \in Items, AskStatus(c, i) PROVE TypeInv'
  <2>1. CallTypes'
    BY <1>2, GettingTypes, RegistryAssumption DEF AskStatus, Ops
  <2> QED
    BY <1>1, <1>2, <2>1, Untouched DEF AskStatus, countVars
<1>3. ASSUME NEW i \in Items, AskReset(c, i) PROVE TypeInv'
  <2>1. agent[i].id \in Ids /\ agent[i].id \in 0..MaxIds
    BY <1>1, <1>3 DEF AskReset, FileTypes, Records, Ids
  <2>2. CallTypes'
    BY <1>3, <2>1, GettingTypes DEF AskReset, Ops
  <2> QED
    BY <1>1, <1>3, <2>2, Untouched DEF AskReset, countVars
<1>4. ASSUME Read(c) PROVE TypeInv'
  <2>1. CASE \E pc \in {"mkdir", "archive"} : Goto(c, pc)
    BY <1>1, <1>4, <2>1, GotoTypes, Untouched DEF Read, countVars, Pcs
  <2>2. CASE Return(c)
    BY <1>1, <1>4, <2>2, ReturnTypes, Untouched DEF Read, countVars
  <2>3. CASE /\ call[c].op = "status" /\ agent[call[c].item] # None
             /\ call' = [call EXCEPT ![c].pc = "hold", ![c].id = agent[call[c].item].id]
    <3>1. agent[call[c].item].id \in Ids
      BY <1>1, <2>3 DEF FileTypes, Records
    <3> DEFINE r == [call[c] EXCEPT !.pc = "hold", !.id = agent[call[c].item].id]
    <3>2. r \in CallRecords /\ r.op = "status" /\ r.item = call[c].item /\ r.id \in Ids
      <4> DEFINE q == [call[c] EXCEPT !.pc = "hold"]
                 n == agent[call[c].item].id
      <4>1. q \in CallRecords /\ q.op = "status" /\ q.item = call[c].item
        BY <1>1, <2>3 DEF CallRecords, Pcs
      <4>2. r = [q EXCEPT !.id = n]
        OBVIOUS
      <4>3. n \in Ids /\ n \in 0..MaxIds
        BY <3>1 DEF Ids
      <4> HIDE DEF q, n
      <4> QED
        BY <4>1, <4>2, <4>3 DEF CallRecords
    <3>3. call' = [call EXCEPT ![c] = r]
      <4> DEFINE f == [call EXCEPT ![c].pc = "hold"]
      <4>1. call \in [Calls -> CallRecords] /\ call' = [f EXCEPT ![c].id = agent[call[c].item].id]
        BY <2>3, <1>1 DEF CallTypes
      <4>2. f = [call EXCEPT ![c] = [call[c] EXCEPT !.pc = "hold"]]
        OBVIOUS
      <4>3. f[c] = [call[c] EXCEPT !.pc = "hold"]
        BY <4>1
      <4> HIDE DEF f
      <4>4. call' = [f EXCEPT ![c] = r]
        BY <4>1, <4>3
      <4> QED
        BY <4>1, <4>2, <4>4
    <3> HIDE DEF r
    <3>4. call' \in [Calls -> CallRecords] /\ call'[c] = r
          /\ \A d \in Calls : d # c => call'[d] = call[d]
      BY <1>1, <3>2, <3>3 DEF CallTypes
    <3>5. Slots'
      BY <1>1, <2>3, <3>2, <3>4, SlotsMove DEF CallTypes
    <3> QED
      BY <1>1, <1>4, <3>4, <3>5, Untouched DEF Read, countVars, CallTypes
  <2> QED
    BY <1>4, <2>1, <2>2, <2>3 DEF Read
<1>5. ASSUME Archive(c) PROVE TypeInv'
  <2>1. CASE dir[call[c].item]
    <3>1. call[c].item \in Items /\ {call[c].id} \in SUBSET Ids
      BY <1>1, <1>5 DEF Archive, At
    <3>2. FileTypes' /\ HistoryTypes'
      BY <1>5, <2>1, <3>1, GoneTypes DEF Archive, countVars
    <3>3. CallTypes'
      BY <1>5, <2>1, <3>1, GettingTypes, RegistryAssumption DEF Archive, Ops
    <3> QED
      BY <1>1, <1>5, <3>2, <3>3, Untouched DEF Archive, countVars
  <2>2. CASE ~dir[call[c].item]
    <3>1. CallTypes'
      BY <1>5, <2>2, ReturnTypes DEF Archive
    <3> QED
      BY <1>1, <1>5, <2>2, <3>1, Untouched DEF Archive, countVars, historyVars
  <2> QED
    BY <2>1, <2>2
<1>6. ASSUME WriteNew(c) PROVE TypeInv'
  <2>1. call[c].item \in Items /\ ids' \in Ids /\ ids' \in 0..MaxIds
    BY <1>1, <1>6, RegistryAssumption DEF WriteNew, At, HistoryTypes, Ids
  <2>2. ChainTypes'
    BY <1>6, <2>1, AskFacts DEF WriteNew, ChainTypes
  <2>3. CallTypes' /\ FileTypes'
    BY <1>6, ReturnTypes, Untouched DEF WriteNew
  <2>4. HistoryTypes'
    BY <1>1, <1>6, <2>1 DEF WriteNew, HistoryTypes, historyVars
  <2> QED
    BY <1>1, <2>2, <2>3, <2>4
<1>7. ASSUME SetStatus(c) PROVE TypeInv'
  <2>1. call[c].item \in Items /\ call[c].id \in Ids
    BY <1>1, <1>7 DEF SetStatus, At
  <2>2. ChainTypes'
    BY <1>7, <2>1, AskFacts DEF SetStatus, ChainTypes
  <2>3. CallTypes' /\ FileTypes'
    BY <1>7, ReturnTypes, Untouched DEF SetStatus
  <2>4. HistoryTypes'
    BY <1>1, <1>7, <2>1 DEF SetStatus, HistoryTypes
  <2> QED
    BY <1>1, <2>2, <2>3, <2>4
<1> QED
  BY <1>2, <1>3, <1>4, <1>5, <1>6, <1>7

LEMMA ItemTypesStep ==
    ASSUME TypeInv, NEW c \in Calls,
           \/ \E i \in Items : AskCreate(c, i) \/ AskDelete(c, i)
           \/ Mkdir(c) \/ AskItem(c) \/ MakeItem(c) \/ WriteManifest(c)
           \/ RemoveAgents(c) \/ RemoveItem(c)
    PROVE  TypeInv'
<1>. USE TypeParts, TypePartsNext
<1>1. /\ FileTypes /\ ChainTypes /\ CallTypes /\ HistoryTypes /\ ItemTypes
      /\ call[c] \in CallRecords /\ (call[c].op # "none" => call[c].item \in Items)
  BY DEF CallTypes, Slots
<1>2. ASSUME NEW i \in Items, AskCreate(c, i) PROVE TypeInv'
  <2>1. CallTypes'
    BY <1>2, GettingTypes, RegistryAssumption DEF AskCreate, Ops
  <2> QED
    BY <1>1, <1>2, <2>1, Untouched DEF AskCreate, countVars
<1>3. ASSUME NEW i \in Items, AskDelete(c, i) PROVE TypeInv'
  <2>1. CallTypes'
    BY <1>3, BeginTypes DEF AskDelete, Ops, Pcs
  <2> QED
    BY <1>1, <1>3, <2>1, Untouched DEF AskDelete, countVars
<1>4. ASSUME Mkdir(c) PROVE TypeInv'
  <2>1. call[c].item \in Items /\ CallTypes'
    BY <1>1, <1>4, GotoTypes DEF Mkdir, At, Pcs
  <2>2. FileTypes' /\ ItemTypes'
    BY <1>1, <1>4, <2>1 DEF Mkdir, FileTypes, ItemTypes
  <2> QED
    BY <1>1, <1>4, <2>1, <2>2, Untouched DEF Mkdir, countVars
<1>5. ASSUME AskItem(c) PROVE TypeInv'
  <2>1. CallTypes'
    BY <1>5, BeginTypes DEF AskItem, Ops, Pcs
  <2> QED
    BY <1>1, <1>5, <2>1, Untouched DEF AskItem, countVars
<1>6. ASSUME MakeItem(c) PROVE TypeInv'
  <2>1. CallTypes'
    BY <1>1, <1>6, GotoTypes, ReturnTypes DEF MakeItem, At, Pcs
  <2>2. ItemTypes'
    BY <1>1, <1>6 DEF MakeItem, ItemTypes
  <2> QED
    BY <1>1, <1>6, <2>1, <2>2, Untouched DEF MakeItem, countVars
<1>7. ASSUME WriteManifest(c) PROVE TypeInv'
  <2>1. CallTypes' /\ ItemTypes'
    BY <1>1, <1>7, ReturnTypes DEF WriteManifest, ItemTypes
  <2> QED
    BY <1>1, <1>7, <2>1, Untouched DEF WriteManifest, countVars
<1>8. ASSUME RemoveAgents(c) PROVE TypeInv'
  <2>1. call[c].item \in Items /\ CallTypes'
    BY <1>1, <1>8, GotoTypes DEF RemoveAgents, At, Pcs
  <2>2. retired' = retired \cup IdsAt(call[c].item) \cup {}
    BY <1>8 DEF RemoveAgents
  <2>3. FileTypes' /\ HistoryTypes'
    <3>1. {} \in SUBSET Ids /\ UNCHANGED <<ids, latest, late, crossed>>
      BY <1>8 DEF RemoveAgents, countVars
    <3> QED
      BY <1>8, <2>1, <2>2, <3>1, GoneTypes DEF RemoveAgents
  <2> QED
    BY <1>1, <1>8, <2>1, <2>3, Untouched DEF RemoveAgents, countVars
<1>9. ASSUME RemoveItem(c) PROVE TypeInv'
  <2>1. call[c].item \in Items /\ CallTypes'
    BY <1>1, <1>9, ReturnTypes DEF RemoveItem, At
  <2>2. ItemTypes'
    BY <1>1, <1>9, <2>1 DEF RemoveItem, ItemTypes
  <2> QED
    BY <1>1, <1>9, <2>1, <2>2, Untouched DEF RemoveItem, countVars
<1> QED
  BY <1>2, <1>3, <1>4, <1>5, <1>6, <1>7, <1>8, <1>9

LEMMA CrashTypes ==
    ASSUME TypeInv, Crash
    PROVE  TypeInv'
<1>1. FileTypes' /\ HistoryTypes'
  BY Untouched DEF Crash, countVars
<1>2. chain' = <<>> /\ writes' \in Nat /\ writes' \in 0..MaxWrites
  BY TypeParts, RegistryAssumption DEF Crash, countVars, ChainTypes
<1>3. ChainTypes'
  BY <1>2 DEF ChainTypes
<1>4. CallTypes'
  BY IdleType DEF Crash, CallTypes, Slots, IdleCall
<1>5. ItemTypes'
  BY TypeParts, ItemsAssumption DEF Crash, ItemTypes
<1> QED
  BY <1>1, <1>3, <1>4, <1>5, TypePartsNext

LEMMA TypeStep == TypeInv /\ [Next]_vars => TypeInv'
<1> SUFFICES ASSUME TypeInv, [Next]_vars PROVE TypeInv'
  OBVIOUS
<1>1. CASE RegistryStep
  BY <1>1, WriteTypes, CallTypesStep DEF RegistryStep
<1>2. CASE ItemStep
  BY <1>2, ItemTypesStep DEF ItemStep
<1>3. CASE Crash
  BY <1>3, CrashTypes
<1>4. CASE UNCHANGED vars
  BY <1>4, Untouched, TypePartsNext DEF vars, registryVars, countVars
<1> QED
  BY <1>1, <1>2, <1>3, <1>4 DEF Next

(* Every variable has its type, calls that are at work have an item, and   *)
(* there are no more writes to do than were asked for.                     *)
THEOREM WorkItemTypes == Spec => []TypeOK
<1>1. Spec => []TypeInv
  BY TypeInit, TypeStep, PTL DEF Spec
<1>2. TypeInv => TypeOK
  BY DEF TypeInv
<1> QED
  BY <1>1, <1>2, PTL

-----------------------------------------------------------------------------
(* What keeps work items and their agents apart.                           *)

(* A call that has made a directory is the only one to write its manifest. *)
Makers == {c \in Calls : At(c, "newItem", "manifest")}
MakersAlone ==
    \A c, d \in Makers :
        items[call[c].item] = Bare /\ (call[c].item = call[d].item => c = d)

(* The work item that a call deletes stays listed until that call is done. *)
DeletersAlone ==
    \A c, d \in Calls :
        /\ call[c].op = "delete" => Listed(call[c].item)
        /\ call[c].op = "delete" /\ call[d].op = "delete" /\ call[c].item = call[d].item => c = d

(* Files are in directories.                                               *)
InDirectory == \A i \in Items : ~dir[i] => agent[i] = None /\ tmps[i] = {}

(* A call that will make an agent's directory has a work item for it.      *)
CreatorsPlaced ==
    \A c \in Calls : call[c].op \in {"create", "reset"} =>
        items[call[c].item] # Absent \/ call[c].item \in raced

(* A work item that goes away takes its agent along.                       *)
GoesClean ==
    \A c \in Calls : At(c, "delete", "rmItem") =>
        ~dir[call[c].item] \/ call[c].item \in raced

GoneIsClean == \A i \in Items : items[i] = Absent => ~dir[i] \/ i \in raced

ItemInv ==
    MakersAlone /\ DeletersAlone /\ InDirectory /\ CreatorsPlaced /\ GoesClean /\ GoneIsClean

(* What puts the writes in order.                                          *)

Places == 1..Len(chain)

(* Writes are done in the order in which they were asked for, and those to *)
(* do come after all that were done.                                       *)
TicketOrder ==
    /\ \A j, k \in Places : j < k => chain[j].rec.ticket < chain[k].rec.ticket
    /\ \A k \in Places : chain[k].rec.ticket <= writes
    /\ \A k \in Places, i \in Items : latest[i] < chain[k].rec.ticket
    /\ \A i \in Items : latest[i] <= writes

OrderInv == TicketOrder /\ StatusIsLatest

(* No agent has an id that was not given yet.                              *)
IdsGiven ==
    /\ \A i \in Items : agent[i].id <= ids /\ owner[i] <= ids /\ \A r \in tmps[i] : r.id <= ids
    /\ \A k \in Places : chain[k].rec.id <= ids
    /\ \A c \in Calls : call[c].id <= ids

(* Unless a status was set for a superseded agent, no write to do is about *)
(* an agent that is older than the last one created or to be created.      *)
NoneOlder ==
    /\ \A k \in Places : chain[k].item \notin late => owner[chain[k].item] <= chain[k].rec.id
    /\ \A j, k \in Places :
          j < k /\ chain[j].item = chain[k].item /\ chain[j].new /\ chain[j].item \notin late
             => chain[j].rec.id <= chain[k].rec.id

(* The write under way has its temporary file while agent.json is replaced,*)
(* but for a directory that has gone, with the last agent created in it.   *)
HasTmp ==
    chain # <<>> /\ chain[1].step # "asked" =>
        chain[1].rec \in tmps[chain[1].item] \/ owner[chain[1].item] = 0

(* Only the first write is under way.                                      *)
OneWrite == \A k \in Places : k # 1 => chain[k].step = "asked"

DiskInv == IdsGiven /\ NoneOlder /\ OneWrite /\ HasTmp /\ AgentOnDisk

-----------------------------------------------------------------------------
(* ItemInv is inductive.                                                   *)
LEMMA ItemInit == Init => ItemInv
BY DEF Init, RegistryInit, ItemInv, MakersAlone, Makers, DeletersAlone, InDirectory, CreatorsPlaced,
       GoesClean, GoneIsClean, At, IdleCall

(* Writing agent.json leaves all of it but InDirectory alone.              *)
LEMMA WriteKeepsItems ==
    ASSUME TypeInv, ItemInv, UNCHANGED <<items, raced, crashes>>,
           WriteTmp \/ WriteRemoves \/ WriteRenames
    PROVE  ItemInv'
<1>0. chain # <<>>
  BY DEF WriteTmp, WriteRemoves, WriteRenames
<1>1. /\ FileTypes /\ Head(chain).item \in Items /\ Head(chain).rec \in Records
  BY <1>0, HeadFacts, TypeParts
<1>2. /\ UNCHANGED dir
      /\ \A c \in Calls : /\ call'[c].op = call[c].op /\ call'[c].pc = call[c].pc
                          /\ call'[c].item = call[c].item
  <2>1. CASE UNCHANGED call
    BY <2>1 DEF WriteTmp, WriteRemoves, WriteRenames
  <2>2. CASE WriteEnds /\ UNCHANGED writes
    BY <1>0, <2>2, WriteEndsFacts DEF WriteTmp, WriteRemoves, WriteRenames
  <2> QED
    BY <2>1, <2>2 DEF WriteTmp, WriteRemoves, WriteRenames, countVars
<1>3. InDirectory'
  BY <1>1 DEF ItemInv, InDirectory, FileTypes, WriteTmp, WriteRemoves, WriteRenames
<1>4. MakersAlone' /\ DeletersAlone' /\ CreatorsPlaced'
  BY <1>2 DEF ItemInv, MakersAlone, Makers, DeletersAlone, CreatorsPlaced, At, Listed
<1>5. GoesClean' /\ GoneIsClean'
  BY <1>2 DEF ItemInv, GoesClean, GoneIsClean, At
<1> QED
  BY <1>3, <1>4, <1>5 DEF ItemInv

(* A call moves on, and makes no directory of a work item or an agent.     *)
LEMMA CallMoves ==
    ASSUME TypeInv, ItemInv, NEW c \in Calls, UNCHANGED <<items, raced>>,
           \A d \in Calls : d # c => call'[d] = call[d],
           \A i \in Items : dir'[i] => dir[i],
           ~(call'[c].op = "newItem" /\ call'[c].pc = "manifest"),
           call'[c].op = "delete" => call[c].op = "delete" /\ call'[c].item = call[c].item,
           call'[c].op = "delete" /\ call'[c].pc = "rmItem" => ~dir'[call'[c].item],
           call'[c].op \in {"create", "reset"} =>
               items[call'[c].item] # Absent \/ call'[c].item \in raced
    PROVE  MakersAlone' /\ DeletersAlone' /\ CreatorsPlaced' /\ GoesClean' /\ GoneIsClean'
<1>1. MakersAlone'
  BY DEF ItemInv, MakersAlone, Makers, At
<1>2. DeletersAlone'
  BY DEF ItemInv, DeletersAlone, Listed
<1>3. CreatorsPlaced'
  BY DEF ItemInv, CreatorsPlaced
<1>4. GoesClean'
  <2> SUFFICES ASSUME NEW d \in Calls, At(d, "delete", "rmItem")'
               PROVE  ~dir'[call'[d].item] \/ call'[d].item \in raced'
    BY DEF GoesClean
  <2>1. CASE d = c
    BY <2>1 DEF At
  <2>2. CASE d # c
    <3>1. call'[d] = call[d] /\ call[d].op = "delete"
      BY <2>2 DEF At
    <3>2. call[d].item \in Items /\ (~dir[call[d].item] \/ call[d].item \in raced)
      BY <3>1 DEF ItemInv, GoesClean, At, TypeInv, Slots
    <3> QED
      BY <3>1, <3>2
  <2> QED
    BY <2>1, <2>2
<1>5. GoneIsClean'
  BY DEF ItemInv, GoneIsClean
<1> QED
  BY <1>1, <1>2, <1>3, <1>4, <1>5

(* The files of an item are untouched, or go away with their directory.    *)
LEMMA FilesGo ==
    ASSUME TypeInv, InDirectory,
           \/ UNCHANGED fileVars
           \/ \E i \in Items : /\ dir' = [dir EXCEPT ![i] = FALSE]
                               /\ agent' = [agent EXCEPT ![i] = None]
                               /\ tmps' = [tmps EXCEPT ![i] = {}]
    PROVE  InDirectory' /\ \A i \in Items : dir'[i] => dir[i]
<1>1. FileTypes
  BY TypeParts
<1>2. CASE UNCHANGED fileVars
  BY <1>2 DEF fileVars, InDirectory
<1>3. ASSUME NEW i \in Items, dir' = [dir EXCEPT ![i] = FALSE],
             agent' = [agent EXCEPT ![i] = None], tmps' = [tmps EXCEPT ![i] = {}]
      PROVE  InDirectory' /\ \A j \in Items : dir'[j] => dir[j]
  <2>1. \A j \in Items : (dir'[j] => dir[j]) /\ (j # i => dir'[j] = dir[j])
    BY <1>1, <1>3 DEF FileTypes
  <2>2. \A j \in Items : /\ agent'[j] = agent[j] \/ agent'[j] = None
                         /\ tmps'[j] = tmps[j] \/ tmps'[j] = {}
    BY <1>1, <1>3 DEF FileTypes
  <2>3. agent'[i] = None /\ tmps'[i] = {}
    BY <1>1, <1>3 DEF FileTypes
  <2> QED
    BY <2>1, <2>2, <2>3 DEF InDirectory
<1> QED
  BY <1>2, <1>3

LEMMA CallKeepsItems ==
    ASSUME TypeInv, ItemInv, UNCHANGED <<items, raced, crashes>>, NEW c \in Calls,
           \/ \E i \in Items : AskStatus(c, i) \/ AskReset(c, i)
           \/ Read(c) \/ Archive(c) \/ WriteNew(c) \/ SetStatus(c)
    PROVE  ItemInv'
<1>1. FileTypes /\ CallTypes /\ InDirectory /\ (call[c].op # "none" => call[c].item \in Items)
  BY TypeParts DEF CallTypes, Slots, ItemInv
<1>2. ASSUME NEW i \in Items, AskStatus(c, i) PROVE ItemInv'
  <2>1. /\ call'[c].op = "status" /\ \A d \in Calls : d # c => call'[d] = call[d]
        /\ UNCHANGED fileVars
    <3>1. Getting(c, "status", i, 0) /\ UNCHANGED fileVars /\ 0 \in 0..MaxIds /\ "status" \in Ops
      BY <1>2, RegistryAssumption DEF AskStatus, Ops
    <3> QED
      BY <3>1, GettingMoves
  <2> QED
    BY <1>1, <2>1, FilesGo, CallMoves DEF ItemInv
<1>3. ASSUME NEW i \in Items, AskReset(c, i) PROVE ItemInv'
  <2>1. agent[i].id \in 0..MaxIds /\ (items[i] # Absent \/ i \in raced)
    BY <1>1, <1>3 DEF AskReset, FileTypes, Records, Ids, ItemInv, InDirectory, GoneIsClean
  <2>2. /\ call'[c].op = "reset" /\ call'[c].item = i /\ \A d \in Calls : d # c => call'[d] = call[d]
        /\ UNCHANGED fileVars
    <3> DEFINE id == agent[i].id
    <3>1. Getting(c, "reset", i, id) /\ UNCHANGED fileVars /\ "reset" \in Ops
      BY <1>3 DEF AskReset, Ops
    <3>2. id \in 0..MaxIds
      BY <2>1
    <3> HIDE DEF id
    <3> QED
      BY <3>1, <3>2, GettingMoves
  <2> QED
    BY <1>1, <2>1, <2>2, FilesGo, CallMoves DEF ItemInv
<1>4. ASSUME Read(c) PROVE ItemInv'
  <2>1. /\ \A d \in Calls : d # c => call'[d] = call[d]
        /\ call'[c].op \in {"none", call[c].op}
        /\ call'[c].op # "none" => call'[c].item = call[c].item
        /\ call[c].op \in {"create", "reset", "status"}
        /\ UNCHANGED fileVars
    <3>1. CASE \E pc \in {"mkdir", "archive"} : Goto(c, pc)
      <4>1. PICK pc \in {"mkdir", "archive"} : Goto(c, pc)
        BY <3>1
      <4>2. pc \in Pcs /\ call[c].op \in {"create", "reset", "status"} /\ UNCHANGED fileVars
        BY <1>4, <4>1 DEF Read, Pcs
      <4> QED
        BY <4>1, <4>2, GotoFacts
    <3>2. CASE Return(c)
      BY <1>4, <3>2, ReturnFacts DEF Read, IdleCall
    <3>3. CASE /\ call[c].op = "status"
               /\ call' = [call EXCEPT ![c].pc = "hold", ![c].id = agent[call[c].item].id]
      <4>1. \A d \in Calls : d # c => call'[d] = call[d]
        BY <1>1, <3>3 DEF CallTypes
      <4>2. call'[c].op = call[c].op /\ call'[c].item = call[c].item
        <5> DEFINE f == [call EXCEPT ![c].pc = "hold"]
        <5>1. f[c] = [call[c] EXCEPT !.pc = "hold"] /\ f[c] \in CallRecords
              /\ f \in [Calls -> CallRecords]
          BY <1>1 DEF CallTypes, CallRecords, Pcs
        <5>2. f[c].op = call[c].op /\ f[c].item = call[c].item
          BY <1>1, <5>1 DEF CallTypes, CallRecords
        <5>3. call' = [f EXCEPT ![c].id = agent[call[c].item].id]
          BY <3>3
        <5> HIDE DEF f
        <5>4. call'[c] = [f[c] EXCEPT !.id = agent[call[c].item].id]
          BY <5>1, <5>3
        <5> QED
          BY <5>1, <5>2, <5>4 DEF CallRecords
      <4> QED
        BY <1>4, <3>3, <4>1, <4>2 DEF Read
    <3> QED
      BY <1>4, <3>1, <3>2, <3>3 DEF Read
  <2>2. call'[c].op \in {"create", "reset"} =>
            items[call'[c].item] # Absent \/ call'[c].item \in raced
    BY <2>1 DEF ItemInv, CreatorsPlaced
  <2> QED
    BY <1>1, <2>1, <2>2, FilesGo, CallMoves DEF ItemInv
<1>5. ASSUME Archive(c) PROVE ItemInv'
  <2>1. call[c].item \in Items /\ call[c].op = "reset"
    BY <1>1, <1>5 DEF Archive, At
  <2>2. /\ \A d \in Calls : d # c => call'[d] = call[d]
        /\ call'[c].op \in {"none", "create"}
        /\ call'[c].op # "none" => call'[c].item = call[c].item
    <3>1. CASE Return(c)
      BY <3>1, ReturnFacts
    <3>2. CASE Getting(c, "create", call[c].item, 0)
      <4>1. 0 \in 0..MaxIds /\ "create" \in Ops
        BY RegistryAssumption DEF Ops
      <4> QED
        BY <2>1, <3>2, <4>1, GettingMoves
    <3> QED
      BY <1>5, <3>1, <3>2 DEF Archive
  <2>3. call'[c].op = "create" => items[call'[c].item] # Absent \/ call'[c].item \in raced
    BY <2>1, <2>2 DEF ItemInv, CreatorsPlaced
  <2>4. InDirectory' /\ \A i \in Items : dir'[i] => dir[i]
    BY <1>1, <1>5, <2>1, FilesGo DEF Archive
  <2> QED
    BY <2>2, <2>3, <2>4, CallMoves DEF ItemInv
<1>6. ASSUME WriteNew(c) \/ SetStatus(c) PROVE ItemInv'
  <2>1. /\ call'[c].op = "none" /\ \A d \in Calls : d # c => call'[d] = call[d]
        /\ UNCHANGED fileVars
    <3>1. Return(c) /\ UNCHANGED fileVars
      BY <1>6 DEF WriteNew, SetStatus
    <3> QED
      BY <3>1, ReturnFacts
  <2> QED
    BY <1>1, <2>1, FilesGo, CallMoves DEF ItemInv
<1> QED
  BY <1>2, <1>3, <1>4, <1>5, <1>6

LEMMA ItemsKeepItems ==
    ASSUME TypeInv, ItemInv, NEW c \in Calls,
           \/ \E i \in Items : AskCreate(c, i) \/ AskDelete(c, i)
           \/ Mkdir(c) \/ AskItem(c) \/ MakeItem(c) \/ WriteManifest(c)
           \/ RemoveAgents(c) \/ RemoveItem(c)
    PROVE  ItemInv'
<1>1. /\ FileTypes /\ CallTypes /\ ItemTypes /\ InDirectory
      /\ \A d \in Calls : call[d].op # "none" => call[d].item \in Items
  BY TypeParts DEF CallTypes, Slots, ItemInv
<1>0. \A d \in Makers : d \in Calls /\ call[d].item \in Items
  BY <1>1 DEF Makers, At
<1>2. ASSUME NEW i \in Items, AskCreate(c, i) PROVE ItemInv'
  <2>1. Getting(c, "create", i, 0) /\ 0 \in 0..MaxIds /\ "create" \in Ops
        /\ UNCHANGED <<fileVars, items, raced>>
    BY <1>2, RegistryAssumption DEF AskCreate, Ops
  <2>2. /\ call'[c].op = "create" /\ call'[c].item = i
        /\ \A d \in Calls : d # c => call'[d] = call[d]
    BY <2>1, GettingMoves
  <2>3. items[i] # Absent
    BY <1>2, ItemsAssumption DEF AskCreate, Listed
  <2> QED
    BY <1>1, <2>1, <2>2, <2>3, FilesGo, CallMoves DEF ItemInv
<1>3. ASSUME NEW i \in Items, AskDelete(c, i) PROVE ItemInv'
  <2>1. /\ call'[c].op = "delete" /\ call'[c].pc = "rmAgents" /\ call'[c].item = i
        /\ \A d \in Calls : d # c => call'[d] = call[d]
    BY <1>3, BeginMoves DEF AskDelete, Ops, Pcs
  <2>2. /\ UNCHANGED <<fileVars, items, raced>> /\ UNCHANGED dir /\ Listed(i)
        /\ \A d \in Calls : call[d].op = "delete" => call[d].item # i
    BY <1>3 DEF AskDelete, fileVars
  <2>3. MakersAlone'
    BY <2>1, <2>2 DEF ItemInv, MakersAlone, Makers, At
  <2>4. DeletersAlone'
    BY <2>1, <2>2 DEF ItemInv, DeletersAlone, Listed
  <2>5. CreatorsPlaced'
    BY <2>1, <2>2 DEF ItemInv, CreatorsPlaced
  <2>6. GoesClean' /\ GoneIsClean'
    BY <2>1, <2>2 DEF ItemInv, GoesClean, GoneIsClean, At
  <2> QED
    BY <1>1, <2>2, <2>3, <2>4, <2>5, <2>6, FilesGo DEF ItemInv
<1>4. ASSUME Mkdir(c) PROVE ItemInv'
  <2> DEFINE i == call[c].item
  <2>1. /\ i \in Items /\ call[c].op = "create" /\ "write" \in Pcs
        /\ dir' = [dir EXCEPT ![i] = TRUE] /\ UNCHANGED <<agent, tmps, items>>
        /\ Goto(c, "write")
        /\ raced \subseteq raced' /\ (GoesAway(i) => i \in raced')
    BY <1>1, <1>4 DEF Mkdir, At, Pcs
  <2>2. /\ call'[c].op = "create" /\ call'[c].pc = "write" /\ call'[c].item = i
        /\ \A d \in Calls : d # c => call'[d] = call[d]
    BY <2>1, GotoFacts
  <2>3. items[i] # Absent \/ i \in raced
    BY <2>1 DEF ItemInv, CreatorsPlaced
  <2>4. \A j \in Items : dir'[j] => dir[j] \/ j = i
    BY <1>1, <2>1 DEF FileTypes
  <2> HIDE DEF i
  <2>5. MakersAlone' /\ DeletersAlone'
    BY <2>1, <2>2 DEF ItemInv, MakersAlone, Makers, DeletersAlone, At, Listed
  <2>6. InDirectory'
    BY <1>1, <2>1, <2>4 DEF InDirectory, FileTypes
  <2>7. CreatorsPlaced'
    BY <2>1, <2>2, <2>3 DEF ItemInv, CreatorsPlaced
  <2>8. GoesClean'
    <3> SUFFICES ASSUME NEW d \in Calls, At(d, "delete", "rmItem")'
                 PROVE  ~dir'[call'[d].item] \/ call'[d].item \in raced'
      BY DEF GoesClean
    <3>1. d # c /\ call'[d] = call[d] /\ At(d, "delete", "rmItem") /\ call[d].item \in Items
      BY <1>1, <2>2 DEF At
    <3>2. ~dir[call[d].item] \/ call[d].item \in raced
      BY <3>1 DEF ItemInv, GoesClean
    <3>3. call[d].item = i => GoesAway(i)
      BY <3>1 DEF GoesAway
    <3> QED
      BY <2>1, <2>4, <3>1, <3>2, <3>3
  <2>9. GoneIsClean'
    BY <2>1, <2>3, <2>4 DEF ItemInv, GoneIsClean
  <2> QED
    BY <2>5, <2>6, <2>7, <2>8, <2>9 DEF ItemInv
<1>5. ASSUME AskItem(c) PROVE ItemInv'
  <2>1. /\ call'[c].op = "newItem" /\ call'[c].pc = "makeItem"
        /\ \A d \in Calls : d # c => call'[d] = call[d]
    BY <1>5, BeginMoves DEF AskItem, Ops, Pcs
  <2>2. UNCHANGED <<fileVars, items, raced>>
    BY <1>5 DEF AskItem
  <2> QED
    BY <1>1, <2>1, <2>2, FilesGo, CallMoves DEF ItemInv
<1>6. ASSUME MakeItem(c) PROVE ItemInv'
  <2> DEFINE i == call[c].item
  <2>1. i \in Items /\ UNCHANGED <<fileVars, raced>> /\ UNCHANGED dir
    BY <1>1, <1>6 DEF MakeItem, At, fileVars
  <2>2. CASE items[i] # Absent
    <3>1. Return(c) /\ UNCHANGED <<items, raced>>
      BY <1>6, <2>2 DEF MakeItem
    <3>2. call'[c].op = "none" /\ \A d \in Calls : d # c => call'[d] = call[d]
      BY <3>1, ReturnFacts
    <3> QED
      BY <1>1, <2>1, <3>1, <3>2, FilesGo, CallMoves DEF ItemInv
  <2>3. CASE items[i] = Absent
    <3>1. items' = [items EXCEPT ![i] = Bare] /\ Goto(c, "manifest") /\ call[c].op = "newItem"
          /\ "manifest" \in Pcs
      BY <1>6, <2>3 DEF MakeItem, At, Pcs
    <3>2. /\ call'[c].op = "newItem" /\ call'[c].pc = "manifest" /\ call'[c].item = i
          /\ \A d \in Calls : d # c => call'[d] = call[d]
      BY <3>1, GotoFacts
    <3>3. items'[i] = Bare /\ \A j \in Items : j # i => items'[j] = items[j]
      BY <1>1, <2>1, <3>1 DEF ItemTypes
    <3> HIDE DEF i
    <3>4. \A d \in Makers : call[d].item # i
      BY <2>3, ItemsAssumption DEF ItemInv, MakersAlone
    <3>5. MakersAlone'
      <4>1. \A d \in Makers' :
                d = c \/ (d \in Makers /\ call'[d].item # i /\ call'[d] = call[d])
        BY <3>2, <3>4 DEF At, Makers
      <4>2. \A d \in Makers' : items'[call'[d].item] = Bare
        BY <1>0, <3>2, <3>3, <4>1 DEF ItemInv, MakersAlone
      <4>3. \A d, e \in Makers' : call'[d].item = call'[e].item => d = e
        BY <3>2, <4>1 DEF ItemInv, MakersAlone
      <4> QED
        BY <4>2, <4>3 DEF MakersAlone
    <3>6. DeletersAlone'
      <4>1. \A d \in Calls : call'[d].op = "delete" =>
                d # c /\ call'[d] = call[d] /\ call[d].item # i
        BY <2>3, <3>2, ItemsAssumption DEF ItemInv, DeletersAlone, Listed
      <4> QED
        BY <1>1, <3>3, <4>1 DEF ItemInv, DeletersAlone, Listed
    <3>7. CreatorsPlaced'
      <4>1. \A d \in Calls : call'[d].op \in {"create", "reset"} => d # c /\ call'[d] = call[d]
        BY <3>2
      <4> QED
        BY <1>1, <2>1, <3>3, <4>1, ItemsAssumption DEF ItemInv, CreatorsPlaced
    <3>8. GoesClean' /\ GoneIsClean'
      BY <2>1, <3>2, <3>3, ItemsAssumption DEF ItemInv, GoesClean, GoneIsClean, At
    <3> QED
      BY <1>1, <2>1, <3>5, <3>6, <3>7, <3>8, FilesGo DEF ItemInv
  <2> QED
    BY <2>2, <2>3
<1>7. ASSUME WriteManifest(c) PROVE ItemInv'
  <2> DEFINE i == call[c].item
  <2>1. /\ i \in Items /\ UNCHANGED <<fileVars, raced>> /\ UNCHANGED dir
        /\ At(c, "newItem", "manifest") /\ items' = [items EXCEPT ![i] = c] /\ Return(c)
    BY <1>1, <1>7 DEF WriteManifest, At, fileVars
  <2>2. call'[c].op = "none" /\ \A d \in Calls : d # c => call'[d] = call[d]
    BY <2>1, ReturnFacts
  <2>3. items'[i] = c /\ (\A j \in Items : j # i => items'[j] = items[j]) /\ items[i] = Bare
    BY <1>1, <2>1 DEF ItemTypes, ItemInv, MakersAlone, Makers
  <2>4. \A d \in Makers : d # c => call[d].item # i
    BY <2>1 DEF ItemInv, MakersAlone, Makers
  <2> HIDE DEF i
  <2>5. MakersAlone'
    <3>1. \A d \in Makers' : d # c /\ d \in Makers /\ call'[d] = call[d]
      BY <2>2 DEF At, Makers
    <3>2. \A d \in Makers' : items'[call'[d].item] = Bare
      BY <1>0, <2>3, <2>4, <3>1 DEF ItemInv, MakersAlone
    <3>3. \A d, e \in Makers' : call'[d].item = call'[e].item => d = e
      BY <3>1 DEF ItemInv, MakersAlone
    <3> QED
      BY <3>2, <3>3 DEF MakersAlone
  <2>6. DeletersAlone'
    <3>1. \A d \in Calls : call'[d].op = "delete" =>
              d # c /\ call'[d] = call[d] /\ call[d].item # i
      BY <2>2, <2>3, ItemsAssumption DEF ItemInv, DeletersAlone, Listed
    <3> QED
      BY <1>1, <2>3, <3>1 DEF ItemInv, DeletersAlone, Listed
  <2>7. CreatorsPlaced'
    <3>1. \A d \in Calls : call'[d].op \in {"create", "reset"} => d # c /\ call'[d] = call[d]
      BY <2>2
    <3> QED
      BY <1>1, <2>1, <2>3, <3>1, ItemsAssumption DEF ItemInv, CreatorsPlaced
  <2>8. GoesClean' /\ GoneIsClean'
    BY <2>1, <2>2, <2>3, ItemsAssumption DEF ItemInv, GoesClean, GoneIsClean, At
  <2> QED
    BY <1>1, <2>1, <2>5, <2>6, <2>7, <2>8, FilesGo DEF ItemInv
<1>8. ASSUME RemoveAgents(c) PROVE ItemInv'
  <2> DEFINE i == call[c].item
  <2>1. /\ i \in Items /\ call[c].op = "delete" /\ UNCHANGED <<items, raced>>
        /\ dir' = [dir EXCEPT ![i] = FALSE] /\ agent' = [agent EXCEPT ![i] = None]
        /\ tmps' = [tmps EXCEPT ![i] = {}] /\ Goto(c, "rmItem") /\ "rmItem" \in Pcs
    BY <1>1, <1>8 DEF RemoveAgents, At, Pcs
  <2>2. /\ call'[c].op = "delete" /\ call'[c].pc = "rmItem" /\ call'[c].item = i
        /\ \A d \in Calls : d # c => call'[d] = call[d]
    BY <2>1, GotoFacts
  <2>3. ~dir'[i] /\ InDirectory' /\ \A j \in Items : dir'[j] => dir[j]
    BY <1>1, <2>1, FilesGo DEF FileTypes
  <2> HIDE DEF i
  <2>4. MakersAlone' /\ DeletersAlone' /\ CreatorsPlaced' /\ GoesClean' /\ GoneIsClean'
    <3>1. call'[c].item = call[c].item
      BY <2>2 DEF i
    <3> QED
      BY <2>1, <2>2, <2>3, <3>1, CallMoves
  <2> QED
    BY <2>3, <2>4 DEF ItemInv
<1>9. ASSUME RemoveItem(c) PROVE ItemInv'
  <2> DEFINE i == call[c].item
  <2>1. /\ i \in Items /\ UNCHANGED fileVars /\ UNCHANGED dir /\ raced \subseteq raced'
        /\ (Creating(i) => i \in raced')
        /\ At(c, "delete", "rmItem") /\ items' = [items EXCEPT ![i] = Absent] /\ Return(c)
    BY <1>1, <1>9 DEF RemoveItem, At, fileVars
  <2>2. call'[c].op = "none" /\ \A d \in Calls : d # c => call'[d] = call[d]
    BY <2>1, ReturnFacts
  <2>3. items'[i] = Absent /\ (\A j \in Items : j # i => items'[j] = items[j]) /\ Listed(i)
    BY <1>1, <2>1 DEF ItemTypes, ItemInv, DeletersAlone, At
  <2>4. /\ ~dir[i] \/ i \in raced
        /\ \A d \in Calls : d # c /\ call[d].op = "delete" => call[d].item # i
    BY <2>1 DEF ItemInv, GoesClean, DeletersAlone, At
  <2>5. \A d \in Makers : call[d].item # i
    BY <2>3, ItemsAssumption DEF ItemInv, MakersAlone, Listed
  <2>0. \A d \in Calls : call'[d].op # "none" => d # c /\ call'[d] = call[d] /\ call[d].item \in Items
    BY <1>1, <2>2
  <2>10. \A d \in Calls : call[d].op \in {"create", "reset"} /\ call[d].item = i => i \in raced'
    BY <2>1 DEF Creating
  <2> HIDE DEF i
  <2>6. MakersAlone'
    <3>1. \A d \in Makers' : d \in Makers /\ call'[d] = call[d] /\ call[d].item \in Items
      BY <2>0 DEF At, Makers
    <3>2. \A d \in Makers' : items'[call'[d].item] = Bare
      BY <2>3, <2>5, <3>1 DEF ItemInv, MakersAlone
    <3>3. \A d, e \in Makers' : call'[d].item = call'[e].item => d = e
      BY <3>1 DEF ItemInv, MakersAlone
    <3> QED
      BY <3>2, <3>3 DEF MakersAlone
  <2>7. DeletersAlone'
    BY <2>0, <2>3, <2>4 DEF ItemInv, DeletersAlone, Listed
  <2>8. CreatorsPlaced'
    BY <2>0, <2>1, <2>3, <2>10 DEF ItemInv, CreatorsPlaced
  <2>9. GoesClean' /\ GoneIsClean'
    BY <2>0, <2>1, <2>3, <2>4 DEF ItemInv, GoesClean, GoneIsClean, At
  <2> QED
    BY <1>1, <2>1, <2>6, <2>7, <2>8, <2>9, FilesGo DEF ItemInv
<1> QED
  BY <1>2, <1>3, <1>4, <1>5, <1>6, <1>7, <1>8, <1>9

LEMMA CrashKeepsItems ==
    ASSUME TypeInv, ItemInv, Crash
    PROVE  ItemInv'
<1>1. /\ UNCHANGED <<dir, agent, tmps, items, raced>>
      /\ \A c \in Calls : call'[c].op = "none"
  BY DEF Crash, fileVars, IdleCall
<1> QED
  BY <1>1 DEF ItemInv, MakersAlone, Makers, DeletersAlone, InDirectory, CreatorsPlaced, GoesClean,
              GoneIsClean, At, Listed

LEMMA ItemStepInv == TypeInv /\ ItemInv /\ [Next]_vars => ItemInv'
<1> SUFFICES ASSUME TypeInv, ItemInv, [Next]_vars PROVE ItemInv'
  OBVIOUS
<1>1. CASE RegistryStep
  BY <1>1, WriteKeepsItems, CallKeepsItems DEF RegistryStep
<1>2. CASE ItemStep
  BY <1>2, ItemsKeepItems DEF ItemStep
<1>3. CASE Crash
  BY <1>3, CrashKeepsItems
<1>4. CASE UNCHANGED vars
  BY <1>4 DEF vars, registryVars, fileVars, ItemInv, MakersAlone, Makers, DeletersAlone, InDirectory,
              CreatorsPlaced, GoesClean, GoneIsClean, At, Listed
<1> QED
  BY <1>1, <1>2, <1>3, <1>4 DEF Next

(* Between two steps, a listed work item keeps its manifest or goes away.  *)
LEMMA OwnStep == TypeInv /\ ItemInv /\ [Next]_vars =>
    \A i \in Items : Listed(i) => items'[i] \in {items[i], Absent}
<1> SUFFICES ASSUME TypeInv, ItemInv, [Next]_vars, NEW i \in Items, Listed(i)
             PROVE  items'[i] \in {items[i], Absent}
  OBVIOUS
<1>1. /\ items \in [Items -> Calls \cup {Absent, Bare}]
      /\ \A c \in Calls : call[c].op # "none" => call[c].item \in Items
  BY DEF TypeInv, TypeOK, Slots
<1>2. CASE UNCHANGED items
  BY <1>2
<1>3. ASSUME NEW c \in Calls, MakeItem(c) PROVE items'[i] \in {items[i], Absent}
  BY <1>1, <1>3, ItemsAssumption DEF MakeItem, Listed
<1>4. ASSUME NEW c \in Calls, WriteManifest(c) PROVE items'[i] \in {items[i], Absent}
  <2>1. items[call[c].item] = Bare
    BY <1>4 DEF WriteManifest, ItemInv, MakersAlone, Makers
  <2>2. i # call[c].item
    BY <2>1, ItemsAssumption DEF Listed
  <2> QED
    BY <1>1, <1>4, <2>2 DEF WriteManifest
<1>5. ASSUME NEW c \in Calls, RemoveItem(c) PROVE items'[i] \in {items[i], Absent}
  BY <1>1, <1>5 DEF RemoveItem
<1>6. CASE RegistryStep
  BY <1>2, <1>6 DEF RegistryStep
<1>7. CASE Crash
  BY <1>2, <1>7 DEF Crash
<1>8. CASE UNCHANGED vars
  BY <1>2, <1>8 DEF vars
<1>9. CASE ItemStep
  BY <1>2, <1>3, <1>4, <1>5, <1>9 DEF ItemStep, AskCreate, AskDelete, Mkdir, AskItem, RemoveAgents
<1> QED
  BY <1>6, <1>7, <1>8, <1>9 DEF Next

LEMMA TypesAndItems == Spec => [](TypeInv /\ ItemInv)
BY TypeInit, TypeStep, ItemInit, ItemStepInv, PTL DEF Spec

(* createWorkItem(): two work items created at the same moment do not      *)
(* share a directory, for any number of handlers and work items.           *)
THEOREM NoSharedItems == Spec => ItemsAreOwn
<1>1. TypeInv /\ ItemInv /\ [Next]_vars =>
        [\A i \in Items : Listed(i) => items'[i] \in {items[i], Absent}]_vars
  BY OwnStep
<1>2. Spec => [][\A i \in Items : Listed(i) => items'[i] \in {items[i], Absent}]_vars
  BY <1>1, TypesAndItems, PTL DEF Spec
<1> QED
  BY <1>2 DEF ItemsAreOwn

(* deleteWorkItem(): a number that is used again brings no agent of the    *)
(* deleted work item, unless one was created while the item was deleted.   *)
THEOREM NumbersReturnBare == Spec => NewItemIsBare
<1>1. ItemInv /\ [Next]_vars =>
        [\A i \in Items : items[i] = Absent /\ items'[i] # Absent => ~dir[i] \/ i \in raced]_vars
  BY DEF ItemInv, GoneIsClean
<1>2. Spec => [][\A i \in Items : items[i] = Absent /\ items'[i] # Absent
                    => ~dir[i] \/ i \in raced]_vars
  BY <1>1, TypesAndItems, PTL DEF Spec
<1> QED
  BY <1>2 DEF NewItemIsBare

(* Both: the directory of a number belongs to one work item at a time.     *)
THEOREM NumbersBelongToOne == Spec => NumbersAreOwn
BY NoSharedItems, NumbersReturnBare DEF NumbersAreOwn

-----------------------------------------------------------------------------
(* OrderInv is inductive.                                                  *)
LEMMA OrderTypes ==
    ASSUME TypeInv
    PROVE  /\ \A k \in Places : /\ chain[k].rec.ticket \in Nat /\ chain[k].rec.id \in Nat
                                /\ chain[k].item \in Items /\ chain[k].new \in BOOLEAN
                                /\ chain[k].rec \in Records
           /\ writes \in Nat /\ ids \in Nat /\ Len(chain) \in Nat
           /\ \A i \in Items : latest[i] \in Nat /\ owner[i] \in Nat /\ agent[i].id \in Nat
           /\ \A i \in Items : \A r \in tmps[i] : r.id \in Nat
           /\ \A c \in Calls : call[c].id \in Nat
<1>1. FileTypes /\ ChainTypes /\ CallTypes /\ HistoryTypes
  BY TypeParts
<1>2. \A r \in Records \cup {None} : r.id \in Nat /\ r.ticket \in Nat
  BY RegistryAssumption DEF Records, None, Ids
<1>3. \A k \in Places : chain[k] \in Entries /\ Len(chain) \in Nat
  BY <1>1 DEF ChainTypes, Places
<1>4. Len(chain) \in Nat
  BY <1>1 DEF ChainTypes
<1>5. \A k \in Places : /\ chain[k].rec.ticket \in Nat /\ chain[k].rec.id \in Nat
                        /\ chain[k].item \in Items /\ chain[k].new \in BOOLEAN
                        /\ chain[k].rec \in Records
  BY <1>2, <1>3 DEF Entries
<1>6. \A i \in Items : /\ latest[i] \in Nat /\ owner[i] \in Nat /\ agent[i].id \in Nat
                       /\ \A r \in tmps[i] : r.id \in Nat
  BY <1>1, <1>2, RegistryAssumption DEF HistoryTypes, FileTypes
<1>7. \A c \in Calls : call[c].id \in Nat
  BY <1>1, RegistryAssumption DEF CallTypes, CallRecords
<1> QED
  BY <1>1, <1>4, <1>5, <1>6, <1>7, RegistryAssumption DEF ChainTypes, HistoryTypes

LEMMA TicketsStay ==
    ASSUME TicketOrder, UNCHANGED <<chain, writes, latest>>
    PROVE  TicketOrder'
BY DEF TicketOrder, Places

(* agent.json is as it was, or not there.                                  *)
LEMMA LatestStays ==
    ASSUME StatusIsLatest, UNCHANGED latest, \A i \in Items : agent'[i] \in {agent[i], None}
    PROVE  StatusIsLatest'
BY DEF StatusIsLatest

LEMMA AskTickets ==
    ASSUME TypeInv, TicketOrder, UNCHANGED latest,
           NEW i \in Items, NEW id \in Ids, NEW new \in BOOLEAN, Ask(i, id, new)
    PROVE  TicketOrder'
<1>0. PICK n \in Nat :
          /\ Len(chain) \in Nat /\ n = Len(chain) + 1 /\ Len(chain') = n /\ n \in 1..n
          /\ \A k \in 1..n : k # n => k < n /\ k \in 1..Len(chain) /\ chain'[k] = chain[k]
          /\ chain'[n].item = i /\ chain'[n].rec.id = id /\ chain'[n].rec.ticket = writes'
          /\ chain'[n].new = new /\ chain'[n].step = "asked"
  BY AskedLast
<1>1. /\ Places' = 1..n /\ writes' = writes + 1 /\ writes' \in Nat
      /\ \A k \in 1..n : k # n => k < n /\ k \in Places /\ chain'[k] = chain[k]
      /\ chain'[n].rec.ticket = writes'
  <2>1. writes' = writes + 1 /\ writes' \in Nat
    BY OrderTypes DEF Ask
  <2>2. Places' = 1..n /\ Places = 1..Len(chain)
    BY <1>0 DEF Places
  <2> QED
    BY <1>0, <2>1, <2>2
<1>2. \A k \in Places : chain[k].rec.ticket \in Nat /\ chain[k].rec.ticket <= writes
  BY OrderTypes DEF TicketOrder
<1>3. writes \in Nat /\ \A j \in Items : latest[j] \in Nat /\ latest[j] <= writes
  BY OrderTypes DEF TicketOrder
<1>4. \A j, k \in Places' : j < k => chain'[j].rec.ticket < chain'[k].rec.ticket
  <2> SUFFICES ASSUME NEW j \in Places', NEW k \in Places', j < k
               PROVE  chain'[j].rec.ticket < chain'[k].rec.ticket
    OBVIOUS
  <2>1. j # n /\ j \in Places /\ chain'[j] = chain[j]
    BY <1>1
  <2>2. CASE k = n
    BY <1>1, <1>2, <1>3, <2>1, <2>2
  <2>3. CASE k # n
    BY <1>1, <2>1, <2>3 DEF TicketOrder
  <2> QED
    BY <2>2, <2>3
<1>5. \A k \in Places' : chain'[k].rec.ticket <= writes'
  BY <1>1, <1>2, <1>3
<1>6. \A k \in Places', j \in Items : latest'[j] < chain'[k].rec.ticket
  BY <1>1, <1>3 DEF TicketOrder
<1>7. \A j \in Items : latest'[j] <= writes'
  BY <1>1, <1>3
<1> QED
  BY <1>4, <1>5, <1>6, <1>7 DEF TicketOrder

(* The first write has ended; its ticket is the last one now, or is lost.  *)
LEMMA WriteEndsTickets ==
    ASSUME TypeInv, TicketOrder, chain # <<>>, WriteEnds, UNCHANGED writes,
           \A i \in Items : latest'[i] \in {latest[i], chain[1].rec.ticket}
    PROVE  TicketOrder'
<1>1. /\ Len(chain') = Len(chain) - 1 /\ Len(chain') \in Nat
      /\ \A k \in 1..Len(chain') : chain'[k] = chain[k + 1]
  BY WriteEndsFacts
<1>2. 1 \in Places /\ Len(chain) \in Nat
  BY HeadFacts DEF Places
<1>3. \A k \in Places' : k + 1 \in Places /\ 1 < k + 1 /\ chain'[k] = chain[k + 1] /\ k \in Nat
  BY <1>1, <1>2 DEF Places
<1>4. \A j, k \in Places' : j < k => chain'[j].rec.ticket < chain'[k].rec.ticket
  BY <1>3 DEF TicketOrder
<1>5. \A k \in Places' : chain'[k].rec.ticket <= writes'
  BY <1>3 DEF TicketOrder
<1>6. \A k \in Places', i \in Items : latest'[i] < chain'[k].rec.ticket
  BY <1>2, <1>3 DEF TicketOrder
<1>7. \A i \in Items : latest'[i] <= writes'
  BY <1>2 DEF TicketOrder
<1> QED
  BY <1>4, <1>5, <1>6, <1>7 DEF TicketOrder

LEMMA StepTickets ==
    ASSUME TypeInv, TicketOrder, chain # <<>>, UNCHANGED <<writes, latest>>,
           NEW step \in {"tmp", "removed"}, chain' = [chain EXCEPT ![1].step = step]
    PROVE  TicketOrder'
<1>1. Places' = Places /\ \A k \in Places : chain'[k].rec = chain[k].rec
  BY StepFacts DEF Places
<1> QED
  BY <1>1 DEF TicketOrder

LEMMA OrderInit == Init => OrderInv
BY DEF Init, RegistryInit, OrderInv, TicketOrder, StatusIsLatest, Places

LEMMA WriteKeepsOrder ==
    ASSUME TypeInv, OrderInv, WriteTmp \/ WriteRemoves \/ WriteRenames
    PROVE  OrderInv'
<1>0. chain # <<>>
  BY DEF WriteTmp, WriteRemoves, WriteRenames
<1>1. /\ FileTypes /\ Head(chain) = chain[1] /\ TicketOrder /\ StatusIsLatest
      /\ chain[1].item \in Items /\ chain[1].rec \in Records /\ 1 \in Places
  BY <1>0, HeadFacts, TypeParts DEF OrderInv, Places
<1>2. CASE WriteTmp
  <2>1. UNCHANGED <<agent, writes, latest>>
    BY <1>2 DEF WriteTmp, countVars, historyVars
  <2>2. StatusIsLatest'
    BY <1>1, <2>1, LatestStays
  <2>3. CASE dir[Head(chain).item]
    <3>1. chain' = [chain EXCEPT ![1].step = "tmp"]
      BY <1>2, <2>3 DEF WriteTmp
    <3> QED
      BY <1>0, <1>1, <2>1, <2>2, <3>1, StepTickets DEF OrderInv
  <2>4. CASE ~dir[Head(chain).item]
    <3>1. WriteEnds /\ \A i \in Items : latest'[i] \in {latest[i], chain[1].rec.ticket}
      BY <1>2, <2>1, <2>4 DEF WriteTmp
    <3> QED
      BY <1>0, <1>1, <2>1, <2>2, <3>1, WriteEndsTickets DEF OrderInv
  <2> QED
    BY <2>3, <2>4
<1>3. CASE WriteRemoves
  <2>1. UNCHANGED <<writes, latest>> /\ chain' = [chain EXCEPT ![1].step = "removed"]
        /\ \A i \in Items : agent'[i] \in {agent[i], None}
    BY <1>1, <1>3 DEF WriteRemoves, countVars, historyVars, FileTypes
  <2> QED
    BY <1>0, <1>1, <2>1, LatestStays, StepTickets DEF OrderInv
<1>4. CASE WriteRenames
  <2> DEFINE i == chain[1].item
             rec == chain[1].rec
  <2>1. WriteEnds /\ UNCHANGED writes /\ latest[i] < rec.ticket
        /\ latest \in [Items -> 0..MaxWrites]
    BY <1>1, <1>4, TypeParts DEF WriteRenames, countVars, TicketOrder, HistoryTypes
  <2>2. CASE rec \in tmps[i]
    <3>1. agent' = [agent EXCEPT ![i] = rec] /\ latest' = [latest EXCEPT ![i] = rec.ticket]
      BY <1>1, <1>4, <2>1, <2>2 DEF WriteRenames
    <3>2. \A j \in Items : latest'[j] \in {latest[j], rec.ticket}
      BY <2>1, <3>1
    <3>3. StatusIsLatest'
      BY <1>1, <2>1, <3>1 DEF StatusIsLatest, FileTypes
    <3> QED
      BY <1>0, <1>1, <2>1, <3>2, <3>3, WriteEndsTickets DEF OrderInv
  <2>3. CASE rec \notin tmps[i]
    <3>1. UNCHANGED <<agent, latest>>
      BY <1>1, <1>4, <2>3 DEF WriteRenames
    <3>2. StatusIsLatest' /\ \A j \in Items : latest'[j] \in {latest[j], rec.ticket}
      BY <1>1, <3>1, LatestStays
    <3> QED
      BY <1>0, <1>1, <2>1, <3>2, WriteEndsTickets DEF OrderInv
  <2> QED
    BY <2>2, <2>3
<1> QED
  BY <1>2, <1>3, <1>4

(* Who writes nothing leaves the order alone, or removes a directory.      *)
LEMMA OthersKeepOrder ==
    ASSUME TypeInv, OrderInv, UNCHANGED <<chain, writes, latest>>,
           UNCHANGED agent \/ \E i \in Items : agent' = [agent EXCEPT ![i] = None]
    PROVE  OrderInv'
<1>1. \A i \in Items : agent'[i] \in {agent[i], None}
  BY TypeParts DEF FileTypes
<1> QED
  BY <1>1, TicketsStay, LatestStays DEF OrderInv

LEMMA OrderStep == TypeInv /\ OrderInv /\ [Next]_vars => OrderInv'
<1> SUFFICES ASSUME TypeInv, OrderInv, [Next]_vars PROVE OrderInv'
  OBVIOUS
<1>1. \A c \in Calls : /\ call[c].op # "none" => call[c].item \in Items
                       /\ call[c].op = "status" /\ call[c].pc = "hold" => call[c].id \in Ids
  BY DEF TypeInv, Slots
<1>2. ASSUME NEW c \in Calls, WriteNew(c) PROVE OrderInv'
  <2>1. call[c].item \in Items /\ ids' \in Ids
    BY <1>1, <1>2, OrderTypes, RegistryAssumption DEF WriteNew, At, Ids
  <2>2. Ask(call[c].item, ids', TRUE) /\ UNCHANGED <<latest, agent>>
    BY <1>2 DEF WriteNew, historyVars, fileVars
  <2>3. TicketOrder'
    BY <2>1, <2>2, AskTickets DEF OrderInv
  <2> QED
    BY <2>2, <2>3, LatestStays DEF OrderInv
<1>3. ASSUME NEW c \in Calls, SetStatus(c) PROVE OrderInv'
  <2>1. /\ call[c].item \in Items /\ call[c].id \in Ids
        /\ Ask(call[c].item, call[c].id, FALSE) /\ UNCHANGED <<latest, agent>>
    BY <1>1, <1>3 DEF SetStatus, At, fileVars
  <2>2. TicketOrder'
    BY <2>1, AskTickets DEF OrderInv
  <2> QED
    BY <2>1, <2>2, LatestStays DEF OrderInv
<1>4. CASE RegistryStep
  <2>1. CASE WriteTmp \/ WriteRemoves \/ WriteRenames
    BY <2>1, WriteKeepsOrder
  <2>2. ASSUME NEW c \in Calls, Read(c) \/ Archive(c) \/ \E i \in Items : AskStatus(c, i) \/ AskReset(c, i)
        PROVE  OrderInv'
    <3>1. UNCHANGED <<chain, writes, latest>>
      BY <2>2 DEF Read, Archive, AskStatus, AskReset, countVars, historyVars
    <3>2. UNCHANGED agent \/ \E i \in Items : agent' = [agent EXCEPT ![i] = None]
      BY <1>1, <2>2 DEF Read, Archive, AskStatus, AskReset, fileVars, At
    <3> QED
      BY <3>1, <3>2, OthersKeepOrder
  <2> QED
    BY <1>2, <1>3, <1>4, <2>1, <2>2 DEF RegistryStep
<1>5. CASE ItemStep
  <2>1. PICK c \in Calls :
            \/ \E i \in Items : AskCreate(c, i) \/ AskDelete(c, i)
            \/ Mkdir(c) \/ AskItem(c) \/ MakeItem(c) \/ WriteManifest(c)
            \/ RemoveAgents(c) \/ RemoveItem(c)
    BY <1>5 DEF ItemStep
  <2>2. UNCHANGED <<chain, writes, latest>>
    BY <2>1 DEF AskCreate, AskDelete, Mkdir, AskItem, MakeItem, WriteManifest, RemoveAgents,
                RemoveItem, countVars, historyVars
  <2>3. UNCHANGED agent \/ \E i \in Items : agent' = [agent EXCEPT ![i] = None]
    BY <1>1, <2>1 DEF AskCreate, AskDelete, Mkdir, AskItem, MakeItem, WriteManifest, RemoveAgents,
                      RemoveItem, fileVars, At
  <2> QED
    BY <2>2, <2>3, OthersKeepOrder
<1>6. CASE Crash
  <2>1. chain' = <<>> /\ UNCHANGED <<writes, latest, agent>>
    BY <1>6 DEF Crash, fileVars, countVars, historyVars
  <2>2. TicketOrder'
    BY <2>1 DEF OrderInv, TicketOrder, Places
  <2> QED
    BY <2>1, <2>2, LatestStays DEF OrderInv
<1>7. CASE UNCHANGED vars
  BY <1>7, OthersKeepOrder DEF vars, registryVars, fileVars, countVars, historyVars
<1> QED
  BY <1>4, <1>5, <1>6, <1>7 DEF Next

(* writeChain: agent.json has the status that was asked for last of those  *)
(* written, for any number of handlers, writes and crashes.                *)
THEOREM LastStatusStays == Spec => []StatusIsLatest
<1>1. Spec => []OrderInv
  BY TypesAndItems, OrderInit, OrderStep, PTL DEF Spec
<1>2. OrderInv => StatusIsLatest
  BY DEF OrderInv
<1> QED
  BY <1>1, <1>2, PTL

-----------------------------------------------------------------------------
(* DiskInv is inductive.                                                   *)
LEMMA DiskInit == Init => DiskInv
BY DEF Init, RegistryInit, DiskInv, IdsGiven, NoneOlder, OneWrite, HasTmp, AgentOnDisk, Places, None, IdleCall

(* Files and writes stay as they are.                                      *)
LEMMA DiskStays ==
    ASSUME DiskInv, UNCHANGED <<chain, tmps, agent, owner, ids, late>>,
           \A c \in Calls : call'[c].id <= ids
    PROVE  DiskInv'
BY DEF DiskInv, IdsGiven, NoneOlder, OneWrite, HasTmp, AgentOnDisk, Places

(* The files of item i go away, and with them what it was to keep.         *)
LEMMA DiskGoes ==
    ASSUME TypeInv, DiskInv, NEW i \in Items, UNCHANGED <<chain, ids, late>>,
           agent' = [agent EXCEPT ![i] = None], tmps' = [tmps EXCEPT ![i] = {}],
           owner' = [owner EXCEPT ![i] = 0], \A c \in Calls : call'[c].id <= ids
    PROVE  DiskInv'
<1>1. FileTypes /\ HistoryTypes
  BY TypeParts
<1>2. /\ \A j \in Items : j # i => agent'[j] = agent[j] /\ tmps'[j] = tmps[j] /\ owner'[j] = owner[j]
      /\ agent'[i] = None /\ tmps'[i] = {} /\ owner'[i] = 0 /\ None.id = 0 /\ Places' = Places
  BY <1>1 DEF FileTypes, HistoryTypes, None, Places
<1>3. ids \in Nat /\ \A k \in Places : chain[k].item \in Items /\ chain[k].rec.id \in Nat
  BY OrderTypes
<1>4. IdsGiven'
  <2>1. \A j \in Items : agent'[j].id <= ids' /\ owner'[j] <= ids'
    BY <1>2, <1>3 DEF DiskInv, IdsGiven
  <2>2. \A j \in Items : \A r \in tmps'[j] : r.id <= ids'
    BY <1>2 DEF DiskInv, IdsGiven
  <2> QED
    BY <1>2, <2>1, <2>2 DEF DiskInv, IdsGiven
<1>5. NoneOlder'
  BY <1>2, <1>3 DEF DiskInv, NoneOlder
<1>6. HasTmp'
  <2>1. chain # <<>> => 1 \in Places
    BY HeadFacts DEF Places
  <2> QED
    BY <1>2, <1>3, <2>1 DEF DiskInv, HasTmp
<1>7. AgentOnDisk'
  BY <1>2 DEF DiskInv, AgentOnDisk
<1>8. OneWrite'
  BY <1>2 DEF DiskInv, OneWrite
<1> QED
  BY <1>4, <1>5, <1>6, <1>7, <1>8 DEF DiskInv

(* A new write, about no agent that is older than those it comes after.    *)
LEMMA DiskAsked ==
    ASSUME TypeInv, DiskInv, NEW i \in Items, NEW id \in Ids, NEW new \in BOOLEAN, Ask(i, id, new),
           UNCHANGED <<tmps, agent, owner>>, ids <= ids', ids' \in Nat, id <= ids', late \subseteq late',
           i \notin late' => /\ owner[i] <= id
                             /\ \A k \in Places : chain[k].new /\ chain[k].item = i => chain[k].rec.id <= id,
           \A c \in Calls : call'[c].id <= ids'
    PROVE  DiskInv'
<1>0. PICK n \in Nat :
          /\ Len(chain) \in Nat /\ n = Len(chain) + 1 /\ Len(chain') = n /\ n \in 1..n
          /\ \A k \in 1..n : k # n => k < n /\ k \in 1..Len(chain) /\ chain'[k] = chain[k]
          /\ chain'[n].item = i /\ chain'[n].rec.id = id /\ chain'[n].rec.ticket = writes'
          /\ chain'[n].new = new /\ chain'[n].step = "asked"
  BY AskedLast
<1>1. /\ Places' = 1..n
      /\ \A k \in Places' : k # n => k < n /\ k \in Places /\ chain'[k] = chain[k]
  BY <1>0 DEF Places
<1>2. /\ \A k \in Places : chain[k].rec.id \in Nat /\ chain[k].item \in Items /\ k \in Nat
      /\ \A j \in Items : owner[j] \in Nat /\ agent[j].id \in Nat /\ \A r \in tmps[j] : r.id \in Nat
      /\ ids \in Nat /\ id \in Nat
  BY OrderTypes DEF Places, Ids
<1>3. IdsGiven'
  <2>1. \A j \in Items : agent'[j].id <= ids' /\ owner'[j] <= ids'
    BY <1>2 DEF DiskInv, IdsGiven
  <2>2. \A j \in Items : \A r \in tmps'[j] : r.id <= ids'
    BY <1>2 DEF DiskInv, IdsGiven
  <2>3. \A k \in Places' : chain'[k].rec.id <= ids'
    BY <1>0, <1>1, <1>2 DEF DiskInv, IdsGiven
  <2> QED
    BY <2>1, <2>2, <2>3 DEF IdsGiven
<1>4. NoneOlder'
  <2>1. \A k \in Places' : chain'[k].item \notin late' => owner'[chain'[k].item] <= chain'[k].rec.id
    BY <1>0, <1>1 DEF DiskInv, NoneOlder
  <2>2. ASSUME NEW j \in Places', NEW k \in Places', j < k, chain'[j].item = chain'[k].item,
               chain'[j].new, chain'[j].item \notin late'
        PROVE  chain'[j].rec.id <= chain'[k].rec.id
    <3>1. k \in Nat /\ j \in Nat /\ k <= n
      BY <1>0, <1>1
    <3>2. j # n /\ j \in Places /\ chain'[j] = chain[j]
      BY <1>1, <2>2, <3>1
    <3>3. CASE k = n
      BY <1>0, <2>2, <3>2, <3>3
    <3>4. CASE k # n
      <4>1. k \in Places /\ chain'[k] = chain[k]
        BY <1>1, <3>4
      <4> QED
        BY <2>2, <3>2, <4>1 DEF DiskInv, NoneOlder
    <3> QED
      BY <3>3, <3>4
  <2> QED
    BY <2>1, <2>2 DEF NoneOlder
<1>5. HasTmp'
  <2>1. chain' # <<>> => 1 \in Places' /\ (1 # n => chain # <<>>)
    BY <1>0, <1>1 DEF Places
  <2> QED
    BY <1>0, <1>1, <2>1 DEF DiskInv, HasTmp
<1>6. AgentOnDisk'
  BY DEF DiskInv, AgentOnDisk
<1>7. OneWrite'
  BY <1>0, <1>1 DEF DiskInv, OneWrite
<1> QED
  BY <1>3, <1>4, <1>5, <1>6, <1>7 DEF DiskInv

(* The write under way goes on.                                            *)
LEMMA DiskMovesOn ==
    ASSUME TypeInv, DiskInv, chain # <<>>, NEW step \in {"tmp", "removed"},
           chain' = [chain EXCEPT ![1].step = step], UNCHANGED <<owner, ids, late, call>>,
           \A i \in Items : agent'[i] \in {agent[i], None}, \A i \in Items : tmps[i] \subseteq tmps'[i],
           \A i \in Items : \A r \in tmps'[i] : r \in tmps[i] \/ r = chain[1].rec,
           chain[1].rec \in tmps'[chain[1].item] \/ owner[chain[1].item] = 0,
           \A i \in Items : agent'[i] # agent[i] =>
               i = chain[1].item /\ (i \notin late /\ owner[i] # 0 => chain[1].rec \in tmps[i])
    PROVE  DiskInv'
<1>1. /\ Places' = Places
      /\ \A k \in Places : /\ chain'[k].item = chain[k].item /\ chain'[k].rec = chain[k].rec
                           /\ chain'[k].new = chain[k].new
  BY StepFacts DEF Places
<1>2. 1 \in Places /\ chain[1].item \in Items /\ ids \in Nat /\ None.id = 0
  BY HeadFacts, OrderTypes DEF Places, None
<1>3. IdsGiven'
  <2>1. \A j \in Items : agent'[j].id <= ids' /\ owner'[j] <= ids'
    BY <1>2 DEF DiskInv, IdsGiven
  <2>2. \A j \in Items : \A r \in tmps'[j] : r.id <= ids'
    BY <1>2 DEF DiskInv, IdsGiven
  <2>3. \A k \in Places' : chain'[k].rec.id <= ids'
    BY <1>1 DEF DiskInv, IdsGiven
  <2> QED
    BY <2>1, <2>2, <2>3 DEF DiskInv, IdsGiven
<1>4. NoneOlder'
  BY <1>1 DEF DiskInv, NoneOlder
<1>5. HasTmp'
  BY <1>1, <1>2 DEF HasTmp
<1>6. AgentOnDisk'
  <2> SUFFICES ASSUME NEW i \in Items, i \notin late, owner[i] # 0
               PROVE  \E r \in tmps'[i] \cup {agent'[i]} : r.id >= owner[i]
    BY DEF AgentOnDisk
  <2>1. PICK r \in tmps[i] \cup {agent[i]} : r.id >= owner[i]
    BY DEF DiskInv, AgentOnDisk
  <2>2. CASE agent'[i] = agent[i]
    BY <2>1, <2>2
  <2>3. CASE agent'[i] # agent[i]
    <3>1. i = chain[1].item /\ chain[1].rec \in tmps[i]
      BY <2>3
    <3>2. owner[i] <= chain[1].rec.id /\ owner[i] \in Nat /\ chain[1].rec.id \in Nat
      BY <1>2, <3>1, OrderTypes DEF DiskInv, NoneOlder
    <3> QED
      BY <3>1, <3>2
  <2> QED
    BY <2>2, <2>3
<1>7. OneWrite'
  <2>1. \A k \in Places : k # 1 => chain'[k] = chain[k]
    BY StepFacts DEF Places
  <2> QED
    BY <1>1, <2>1 DEF DiskInv, OneWrite
<1> QED
  BY <1>3, <1>4, <1>5, <1>6, <1>7 DEF DiskInv

(* The write under way ends, and agent.json has its record or is as it was.*)
LEMMA DiskEnds ==
    ASSUME TypeInv, DiskInv, chain # <<>>, WriteEnds, UNCHANGED <<writes, ids, late>>,
           \/ UNCHANGED <<agent, tmps, owner>>
           \/ /\ chain[1].rec \in tmps[chain[1].item]
              /\ agent' = [agent EXCEPT ![chain[1].item] = chain[1].rec]
              /\ tmps' = [tmps EXCEPT ![chain[1].item] = @ \ {chain[1].rec}]
              /\ owner' = IF chain[1].new THEN [owner EXCEPT ![chain[1].item] = chain[1].rec.id]
                                          ELSE owner
    PROVE  DiskInv'
<1> DEFINE i == chain[1].item
           rec == chain[1].rec
<1>1. /\ Len(chain') = Len(chain) - 1 /\ Len(chain') \in Nat /\ Len(chain) \in Nat
      /\ \A k \in 1..Len(chain') : chain'[k] = chain[k + 1]
      /\ \A c \in Calls : call'[c].id = call[c].id
  BY WriteEndsFacts, HeadFacts
<1>2. 1 \in Places /\ i \in Items /\ rec.id \in Nat /\ rec.id <= ids /\ rec \in Records
  BY HeadFacts, OrderTypes DEF Places, DiskInv, IdsGiven
<1>3. \A k \in Places' : k + 1 \in Places /\ 1 < k + 1 /\ chain'[k] = chain[k + 1] /\ k \in Nat
  BY <1>1 DEF Places
<1>4. FileTypes /\ HistoryTypes
  BY TypeParts
<1>5. /\ \A j \in Items : j # i => agent'[j] = agent[j] /\ tmps'[j] = tmps[j] /\ owner'[j] = owner[j]
      /\ \/ agent'[i] = agent[i] /\ tmps'[i] = tmps[i] /\ owner'[i] = owner[i]
         \/ /\ agent'[i] = rec /\ tmps'[i] \subseteq tmps[i]
            /\ owner'[i] = rec.id /\ chain[1].new
         \/ agent'[i] = rec /\ tmps'[i] \subseteq tmps[i] /\ owner'[i] = owner[i]
  BY <1>2, <1>4 DEF FileTypes, HistoryTypes
<1>6. \A k \in Places : chain[k].item \in Items /\ chain[k].rec.id \in Nat
  BY OrderTypes
<1>7. rec = chain[1].rec /\ i = chain[1].item
  OBVIOUS
<1> HIDE DEF i, rec
<1>8. IdsGiven'
  <2>1. \A j \in Items : agent'[j].id <= ids' /\ owner'[j] <= ids'
    BY <1>2, <1>5 DEF DiskInv, IdsGiven
  <2>2. \A j \in Items : \A r \in tmps'[j] : r.id <= ids'
    BY <1>5 DEF DiskInv, IdsGiven
  <2>3. \A k \in Places' : chain'[k].rec.id <= ids'
    BY <1>3 DEF DiskInv, IdsGiven
  <2>4. \A c \in Calls : call'[c].id <= ids'
    BY <1>1 DEF DiskInv, IdsGiven
  <2> QED
    BY <2>1, <2>2, <2>3, <2>4 DEF IdsGiven
<1>9. NoneOlder'
  <2>1. ASSUME NEW k \in Places', chain'[k].item \notin late'
        PROVE  owner'[chain'[k].item] <= chain'[k].rec.id
    <3>1. /\ k + 1 \in Places /\ 1 < k + 1 /\ chain'[k] = chain[k + 1]
          /\ owner[chain[k + 1].item] <= chain[k + 1].rec.id
      BY <1>3, <2>1 DEF DiskInv, NoneOlder
    <3>2. chain[k + 1].item = i /\ chain[1].new => rec.id <= chain[k + 1].rec.id
      BY <1>2, <1>7, <2>1, <3>1 DEF DiskInv, NoneOlder
    <3> QED
      BY <1>5, <1>6, <3>1, <3>2
  <2>2. \A j, k \in Places' :
            j < k /\ chain'[j].item = chain'[k].item /\ chain'[j].new /\ chain'[j].item \notin late'
               => chain'[j].rec.id <= chain'[k].rec.id
    <3> SUFFICES ASSUME NEW j \in Places', NEW k \in Places', j < k, chain'[j].item = chain'[k].item,
                        chain'[j].new, chain'[j].item \notin late'
                 PROVE  chain'[j].rec.id <= chain'[k].rec.id
      OBVIOUS
    <3>1. /\ j + 1 \in Places /\ k + 1 \in Places /\ j + 1 < k + 1
          /\ chain'[j] = chain[j + 1] /\ chain'[k] = chain[k + 1]
      BY <1>3
    <3> QED
      BY <3>1 DEF DiskInv, NoneOlder
  <2> QED
    BY <2>1, <2>2 DEF NoneOlder
<1>11. AgentOnDisk'
  <2> SUFFICES ASSUME NEW j \in Items, j \notin late, owner'[j] # 0
               PROVE  \E r \in tmps'[j] \cup {agent'[j]} : r.id >= owner'[j]
    BY DEF AgentOnDisk
  <2>1. CASE agent'[j] = agent[j] /\ tmps'[j] = tmps[j] /\ owner'[j] = owner[j]
    BY <2>1 DEF DiskInv, AgentOnDisk
  <2>2. CASE j = i /\ agent'[i] = rec
    <3>1. owner[i] <= rec.id /\ owner[i] \in Nat
      BY <1>2, <1>7, <2>2, OrderTypes DEF DiskInv, NoneOlder
    <3>2. rec.id >= owner'[i]
      BY <1>2, <1>5, <2>2, <3>1 DEF DiskInv
    <3> QED
      BY <2>2, <3>2
  <2> QED
    BY <1>5, <2>1, <2>2
<1>12. OneWrite' /\ \A k \in Places' : chain'[k].step = "asked"
  BY <1>3 DEF DiskInv, OneWrite
<1>13. HasTmp'
  <2>1. chain' # <<>> => 1 \in Places'
    <3>1. chain' \in Seq(Entries)
      BY WriteEndsFacts
    <3> QED
      BY <1>1, <3>1 DEF Places
  <2> QED
    BY <1>12, <2>1 DEF HasTmp
<1> QED
  BY <1>8, <1>9, <1>11, <1>12, <1>13 DEF DiskInv

LEMMA WriteKeepsDisk ==
    ASSUME TypeInv, DiskInv, WriteTmp \/ WriteRemoves \/ WriteRenames
    PROVE  DiskInv'
<1>0. chain # <<>>
  BY DEF WriteTmp, WriteRemoves, WriteRenames
<1>1. /\ FileTypes /\ Head(chain) = chain[1] /\ 1 \in Places
      /\ chain[1].item \in Items /\ chain[1].rec \in Records
  BY <1>0, HeadFacts, TypeParts DEF Places
<1>2. CASE WriteTmp
  <2>1. UNCHANGED <<agent, owner, ids, writes, late>>
    BY <1>2 DEF WriteTmp, countVars, historyVars
  <2>2. CASE dir[chain[1].item]
    <3>1. /\ chain' = [chain EXCEPT ![1].step = "tmp"] /\ UNCHANGED call
          /\ tmps' = [tmps EXCEPT ![chain[1].item] = @ \cup {chain[1].rec}]
      BY <1>1, <1>2, <2>2 DEF WriteTmp
    <3>2. /\ \A i \in Items : tmps[i] \subseteq tmps'[i]
          /\ \A i \in Items : \A r \in tmps'[i] : r \in tmps[i] \/ r = chain[1].rec
          /\ chain[1].rec \in tmps'[chain[1].item]
      BY <1>1, <3>1 DEF FileTypes
    <3> QED
      BY <1>0, <2>1, <3>1, <3>2, DiskMovesOn
  <2>3. CASE ~dir[chain[1].item]
    <3>1. WriteEnds /\ UNCHANGED tmps
      BY <1>1, <1>2, <2>3 DEF WriteTmp
    <3> QED
      BY <1>0, <2>1, <3>1, DiskEnds
  <2> QED
    BY <2>2, <2>3
<1>3. CASE WriteRemoves
  <2>1. /\ UNCHANGED <<tmps, owner, ids, writes, late, call>>
        /\ chain' = [chain EXCEPT ![1].step = "removed"] /\ chain[1].step = "tmp"
        /\ agent' = [agent EXCEPT ![chain[1].item] = None]
    BY <1>1, <1>3 DEF WriteRemoves, countVars, historyVars
  <2>2. chain[1].rec \in tmps[chain[1].item] \/ owner[chain[1].item] = 0
    BY <1>0, <2>1 DEF DiskInv, HasTmp
  <2>3. /\ \A i \in Items : agent'[i] \in {agent[i], None}
        /\ \A i \in Items : agent'[i] # agent[i] =>
              i = chain[1].item /\ (i \notin late /\ owner[i] # 0 => chain[1].rec \in tmps[i])
    BY <1>1, <2>1, <2>2 DEF FileTypes
  <2> QED
    BY <1>0, <2>1, <2>2, <2>3, DiskMovesOn
<1>4. CASE WriteRenames
  <2>1. WriteEnds /\ UNCHANGED <<writes, ids, late>>
    BY <1>4 DEF WriteRenames, countVars
  <2>2. \/ UNCHANGED <<agent, tmps, owner>>
        \/ /\ chain[1].rec \in tmps[chain[1].item]
           /\ agent' = [agent EXCEPT ![chain[1].item] = chain[1].rec]
           /\ tmps' = [tmps EXCEPT ![chain[1].item] = @ \ {chain[1].rec}]
           /\ owner' = IF chain[1].new THEN [owner EXCEPT ![chain[1].item] = chain[1].rec.id]
                                       ELSE owner
    BY <1>1, <1>4 DEF WriteRenames
  <2> QED
    BY <1>0, <2>1, <2>2, DiskEnds
<1> QED
  BY <1>2, <1>3, <1>4

(* One call moves on, and names no agent that was not given an id yet.     *)
LEMMA CallIdsStay ==
    ASSUME DiskInv, NEW c \in Calls, \A d \in Calls : d # c => call'[d] = call[d],
           call'[c].id <= ids
    PROVE  \A d \in Calls : call'[d].id <= ids
BY DEF DiskInv, IdsGiven

LEMMA CallKeepsDisk ==
    ASSUME TypeInv, DiskInv, NEW c \in Calls,
           \/ \E i \in Items : AskStatus(c, i) \/ AskReset(c, i)
           \/ Read(c) \/ Archive(c) \/ WriteNew(c) \/ SetStatus(c)
    PROVE  DiskInv'
<1>1. /\ FileTypes /\ CallTypes /\ call[c].id <= ids /\ ids \in Nat
      /\ (call[c].op # "none" => call[c].item \in Items)
      /\ (call[c].op = "status" /\ call[c].pc = "hold" => call[c].id \in Ids)
      /\ \A i \in Items : agent[i].id <= ids
  BY TypeParts, OrderTypes DEF CallTypes, Slots, DiskInv, IdsGiven
<1>2. ASSUME NEW i \in Items, AskStatus(c, i) PROVE DiskInv'
  <2>1. /\ Getting(c, "status", i, 0) /\ 0 \in 0..MaxIds /\ "status" \in Ops
        /\ UNCHANGED <<chain, tmps, agent, owner, ids, late>>
    BY <1>2, RegistryAssumption DEF AskStatus, Ops, fileVars, countVars, historyVars
  <2>2. call'[c].id <= ids /\ \A d \in Calls : d # c => call'[d] = call[d]
    BY <1>1, <2>1, GettingMoves
  <2> QED
    BY <2>1, <2>2, CallIdsStay, DiskStays
<1>3. ASSUME NEW i \in Items, AskReset(c, i) PROVE DiskInv'
  <2> DEFINE id == agent[i].id
  <2>1. /\ Getting(c, "reset", i, id) /\ "reset" \in Ops /\ id <= ids
        /\ UNCHANGED <<chain, tmps, agent, owner, ids, late>>
    BY <1>1, <1>3 DEF AskReset, Ops, fileVars, countVars, historyVars
  <2>2. id \in 0..MaxIds
    BY <1>1, <1>3 DEF AskReset, FileTypes, Records, Ids
  <2> HIDE DEF id
  <2>3. call'[c].id <= ids /\ \A d \in Calls : d # c => call'[d] = call[d]
    BY <2>1, <2>2, GettingMoves
  <2> QED
    BY <2>1, <2>3, CallIdsStay, DiskStays
<1>4. ASSUME Read(c) PROVE DiskInv'
  <2>1. UNCHANGED <<chain, tmps, agent, owner, ids, late>>
    BY <1>4 DEF Read, fileVars, countVars, historyVars
  <2>2. call'[c].id <= ids /\ \A d \in Calls : d # c => call'[d] = call[d]
    <3>1. CASE \E pc \in {"mkdir", "archive"} : Goto(c, pc)
      <4>1. PICK pc \in {"mkdir", "archive"} : Goto(c, pc)
        BY <3>1
      <4>2. pc \in Pcs
        BY DEF Pcs
      <4> QED
        BY <1>1, <4>1, <4>2, GotoFacts
    <3>2. CASE Return(c)
      BY <1>1, <3>2, ReturnFacts
    <3>3. CASE /\ call[c].op = "status"
               /\ call' = [call EXCEPT ![c].pc = "hold", ![c].id = agent[call[c].item].id]
      <4> DEFINE f == [call EXCEPT ![c].pc = "hold"]
                 id == agent[call[c].item].id
      <4>1. f \in [Calls -> CallRecords] /\ \A d \in Calls : d # c => f[d] = call[d]
        BY <1>1 DEF CallTypes, CallRecords, Pcs
      <4>2. call' = [f EXCEPT ![c].id = id] /\ id <= ids
        BY <1>1, <3>3
      <4> HIDE DEF f, id
      <4>3. call'[c] = [f[c] EXCEPT !.id = id] /\ \A d \in Calls : d # c => call'[d] = f[d]
        BY <4>1, <4>2
      <4>4. f[c] \in CallRecords
        BY <4>1
      <4>5. call'[c].id = id
        BY <4>3, <4>4 DEF CallRecords
      <4> QED
        BY <4>1, <4>2, <4>3, <4>5
    <3> QED
      BY <1>4, <3>1, <3>2, <3>3 DEF Read
  <2> QED
    BY <2>1, <2>2, CallIdsStay, DiskStays
<1>5. ASSUME Archive(c) PROVE DiskInv'
  <2>1. call[c].item \in Items /\ UNCHANGED <<chain, ids, late>>
    BY <1>1, <1>5 DEF Archive, At, countVars
  <2>2. CASE dir[call[c].item]
    <3>1. /\ Getting(c, "create", call[c].item, 0) /\ 0 \in 0..MaxIds /\ "create" \in Ops
          /\ agent' = [agent EXCEPT ![call[c].item] = None]
          /\ tmps' = [tmps EXCEPT ![call[c].item] = {}]
          /\ owner' = [owner EXCEPT ![call[c].item] = 0]
      BY <1>5, <2>2, RegistryAssumption DEF Archive, Ops
    <3>2. call'[c].id <= ids /\ \A d \in Calls : d # c => call'[d] = call[d]
      <4>1. call'[c].id = 0 /\ \A d \in Calls : d # c => call'[d] = call[d]
        BY <2>1, <3>1, GettingMoves
      <4> QED
        BY <1>1, <4>1
    <3> QED
      BY <2>1, <3>1, <3>2, CallIdsStay, DiskGoes
  <2>3. CASE ~dir[call[c].item]
    <3>1. Return(c) /\ UNCHANGED <<tmps, agent, owner>>
      BY <1>5, <2>3 DEF Archive, fileVars
    <3>2. call'[c].id <= ids /\ \A d \in Calls : d # c => call'[d] = call[d]
      BY <1>1, <3>1, ReturnFacts
    <3> QED
      BY <2>1, <3>1, <3>2, CallIdsStay, DiskStays
  <2> QED
    BY <2>2, <2>3
<1>6. ASSUME WriteNew(c) PROVE DiskInv'
  <2>1. call[c].item \in Items /\ ids' = ids + 1 /\ ids' \in Ids /\ TRUE \in BOOLEAN
    BY <1>1, <1>6, RegistryAssumption DEF WriteNew, At, Ids
  <2>2. /\ Ask(call[c].item, ids', TRUE) /\ Return(c)
        /\ UNCHANGED <<tmps, agent, owner, late>>
    BY <1>6 DEF WriteNew, historyVars, fileVars
  <2>3. \A d \in Calls : call'[d].id <= ids'
    <3>1. call'[c].id <= ids /\ \A d \in Calls : d # c => call'[d] = call[d]
      BY <1>1, <2>2, ReturnFacts
    <3>2. \A d \in Calls : call'[d].id <= ids /\ call[d].id \in Nat
      BY <3>1, CallIdsStay, OrderTypes
    <3>3. \A d \in Calls : call'[d].id \in Nat
      BY <2>2, <3>1, <3>2, ReturnFacts
    <3> QED
      BY <1>1, <2>1, <3>2, <3>3
  <2>4. /\ owner[call[c].item] <= ids' /\ ids <= ids' /\ ids' \in Nat
        /\ \A k \in Places : chain[k].rec.id <= ids'
    BY <1>1, <2>1, OrderTypes DEF DiskInv, IdsGiven
  <2> DEFINE id == ids'
             i == call[c].item
  <2>5. Ask(i, id, TRUE)
    BY <2>2
  <2>6. /\ id \in Ids /\ id <= ids' /\ i \in Items /\ late \subseteq late'
        /\ i \notin late' => /\ owner[i] <= id
                             /\ \A k \in Places : chain[k].new /\ chain[k].item = i => chain[k].rec.id <= id
    BY <2>1, <2>2, <2>4
  <2> HIDE DEF id, i
  <2> QED
    BY <2>1, <2>2, <2>3, <2>4, <2>5, <2>6, DiskAsked
<1>7. ASSUME SetStatus(c) PROVE DiskInv'
  <2> DEFINE i == call[c].item
             id == call[c].id
  <2>1. /\ i \in Items /\ id \in Ids /\ FALSE \in BOOLEAN
        /\ Ask(i, id, FALSE) /\ Return(c)
        /\ UNCHANGED <<tmps, agent, owner, ids>> /\ late \subseteq late'
        /\ (i \notin late' => ~Superseded(i, id))
    <3>1. UNCHANGED ids /\ UNCHANGED fileVars /\ UNCHANGED owner /\ At(c, "status", "hold")
          /\ Ask(i, id, FALSE) /\ Return(c)
          /\ late' = IF Superseded(i, id) THEN late \cup {i} ELSE late
      BY <1>7 DEF SetStatus
    <3>2. i \in Items /\ id \in Ids
      BY <1>1, <3>1 DEF At
    <3> HIDE DEF i, id
    <3> QED
      BY <3>1, <3>2 DEF fileVars
  <2>2. \A d \in Calls : call'[d].id <= ids'
    <3>1. call'[c].id <= ids /\ \A d \in Calls : d # c => call'[d] = call[d]
      BY <1>1, <2>1, ReturnFacts
    <3> QED
      BY <2>1, <3>1, CallIdsStay
  <2>3. i \notin late' =>
            /\ owner[i] <= id
            /\ \A k \in Places : chain[k].new /\ chain[k].item = i => chain[k].rec.id <= id
    <3>1. owner[i] \in Nat /\ id \in Nat /\ \A k \in Places : chain[k].rec.id \in Nat
      BY <2>1, OrderTypes DEF Ids
    <3>2. Places = DOMAIN chain
      BY TypeParts DEF ChainTypes, Places
    <3> QED
      BY <2>1, <3>1, <3>2 DEF Superseded
  <2>4. id <= ids' /\ ids <= ids' /\ ids' \in Nat
    BY <1>1, <2>1
  <2> HIDE DEF i, id
  <2> QED
    BY <2>1, <2>2, <2>3, <2>4, DiskAsked
<1> QED
  BY <1>2, <1>3, <1>4, <1>5, <1>6, <1>7

LEMMA ItemsKeepDisk ==
    ASSUME TypeInv, DiskInv, NEW c \in Calls,
           \/ \E i \in Items : AskCreate(c, i) \/ AskDelete(c, i)
           \/ Mkdir(c) \/ AskItem(c) \/ MakeItem(c) \/ WriteManifest(c)
           \/ RemoveAgents(c) \/ RemoveItem(c)
    PROVE  DiskInv'
<1>1. /\ call[c].id <= ids /\ ids \in Nat /\ (call[c].op # "none" => call[c].item \in Items)
  BY OrderTypes DEF TypeInv, Slots, DiskInv, IdsGiven
<1>2. /\ UNCHANGED <<chain, ids, late>>
      /\ ~RemoveAgents(c) => UNCHANGED <<tmps, agent, owner>>
  BY DEF AskCreate, AskDelete, Mkdir, AskItem, MakeItem, WriteManifest, RemoveAgents, RemoveItem,
         fileVars, countVars, historyVars
<1>3. call'[c].id <= ids /\ \A d \in Calls : d # c => call'[d] = call[d]
  <2>1. ASSUME NEW pc \in Pcs, Goto(c, pc)
        PROVE  call'[c].id <= ids /\ \A d \in Calls : d # c => call'[d] = call[d]
    BY <1>1, <2>1, GotoFacts
  <2>2. CASE Return(c)
    BY <1>1, <2>2, ReturnFacts
  <2>3. ASSUME NEW i \in Items, Getting(c, "create", i, 0)
        PROVE  call'[c].id <= ids /\ \A d \in Calls : d # c => call'[d] = call[d]
    <3>1. 0 \in 0..MaxIds /\ "create" \in Ops
      BY RegistryAssumption DEF Ops
    <3>2. call'[c].id = 0 /\ \A d \in Calls : d # c => call'[d] = call[d]
      BY <2>3, <3>1, GettingMoves
    <3> QED
      BY <1>1, <3>2
  <2>4. ASSUME NEW i \in Items, NEW op \in Ops, NEW pc \in Pcs, Begin(c, op, pc, i)
        PROVE  call'[c].id <= ids /\ \A d \in Calls : d # c => call'[d] = call[d]
    <3>1. call'[c].id = 0 /\ \A d \in Calls : d # c => call'[d] = call[d]
      BY <2>4, BeginMoves
    <3> QED
      BY <1>1, <3>1
  <2>5. /\ {"write", "manifest", "rmItem", "makeItem", "rmAgents"} \subseteq Pcs
        /\ {"newItem", "delete"} \subseteq Ops
    BY DEF Pcs, Ops
  <2>6. \/ \E pc \in {"write", "manifest", "rmItem"} : Goto(c, pc)
        \/ Return(c)
        \/ \E i \in Items : Getting(c, "create", i, 0)
        \/ \E i \in Items : Begin(c, "newItem", "makeItem", i) \/ Begin(c, "delete", "rmAgents", i)
    BY DEF AskCreate, AskDelete, Mkdir, AskItem, MakeItem, WriteManifest, RemoveAgents, RemoveItem
  <2> QED
    BY <2>1, <2>2, <2>3, <2>4, <2>5, <2>6
<1>4. \A d \in Calls : call'[d].id <= ids
  BY <1>3, CallIdsStay
<1>5. CASE ~RemoveAgents(c)
  BY <1>2, <1>4, <1>5, DiskStays
<1>6. CASE RemoveAgents(c)
  <2>1. /\ call[c].item \in Items
        /\ agent' = [agent EXCEPT ![call[c].item] = None]
        /\ tmps' = [tmps EXCEPT ![call[c].item] = {}]
        /\ owner' = [owner EXCEPT ![call[c].item] = 0]
    BY <1>1, <1>6 DEF RemoveAgents, At
  <2> QED
    BY <1>2, <1>4, <2>1, DiskGoes
<1> QED
  BY <1>5, <1>6

LEMMA DiskStep == TypeInv /\ DiskInv /\ [Next]_vars => DiskInv'
<1> SUFFICES ASSUME TypeInv, DiskInv, [Next]_vars PROVE DiskInv'
  OBVIOUS
<1>1. CASE RegistryStep
  BY <1>1, WriteKeepsDisk, CallKeepsDisk DEF RegistryStep
<1>2. CASE ItemStep
  BY <1>2, ItemsKeepDisk DEF ItemStep
<1>3. CASE Crash
  <2>1. /\ chain' = <<>> /\ UNCHANGED <<tmps, agent, owner, ids, late>>
        /\ \A c \in Calls : call'[c].id = 0
    BY <1>3 DEF Crash, fileVars, countVars, historyVars, IdleCall
  <2>2. ids \in Nat /\ Places' = {}
    BY <2>1, OrderTypes DEF Places
  <2> QED
    BY <2>1, <2>2 DEF DiskInv, IdsGiven, NoneOlder, OneWrite, HasTmp, AgentOnDisk
<1>4. CASE UNCHANGED vars
  <2>1. \A c \in Calls : call'[c].id <= ids
    BY <1>4 DEF vars, registryVars, DiskInv, IdsGiven
  <2> QED
    BY <1>4, <2>1, DiskStays DEF vars, registryVars, fileVars, countVars, historyVars
<1> QED
  BY <1>1, <1>2, <1>3, <1>4 DEF Next

(* writeAgent(): whenever the program dies, the last agent created, or one *)
(* created since, is in agent.json or in a complete temporary file.        *)
THEOREM AgentNeverLost == Spec => []AgentOnDisk
<1>1. Spec => []DiskInv
  BY TypesAndItems, DiskInit, DiskStep, PTL DEF Spec
<1>2. DiskInv => AgentOnDisk
  BY DEF DiskInv
<1> QED
  BY <1>1, <1>2, PTL

-----------------------------------------------------------------------------
(* What keeps the agents that were retired away.                           *)

(* The ids that are in a file of item i, in a write to do or in a call.    *)
Has == [i \in Items |->
    {id \in Ids : \/ agent[i].id = id
                  \/ \E r \in tmps[i] : r.id = id
                  \/ \E k \in Places : chain[k].item = i /\ chain[k].rec.id = id
                  \/ \E c \in Calls : call[c].item = i /\ call[c].id = id}]

OneItem == \A i, j \in Items : \A id \in Has[i] : id \in Has[j] => i = j

RetiredGiven == \A id \in retired : id <= ids

ExcusedItems == late \cup raced \cup crossed

(* The work items that GoesAway() is true of.                              *)
Going == {i \in Items : GoesAway(i)}

(* While there is a directory, neither agent.json nor a write to do has an *)
(* agent of it that was retired.                                           *)
NoneBack ==
    \A i \in Items : dir[i] /\ i \notin ExcusedItems =>
        /\ agent[i].id \notin retired
        /\ \A k \in Places : chain[k].item = i => chain[k].rec.id \notin retired

(* Nor have those writes that a call which will make the directory has not *)
(* waited for.                                                             *)
Making(c) == call[c].op = "create" /\ call[c].pc \in {"get", "mkdir"}
NoneComesTo(c) ==
    \A k \in Places : k > call[c].after /\ chain[k].item = call[c].item => chain[k].rec.id \notin retired
NoneComes ==
    \A c \in Calls : Making(c) /\ call[c].item \notin ExcusedItems \cup Going => NoneComesTo(c)

RetiredInv == OneItem /\ RetiredGiven /\ NoneBack /\ NoneComes

LEMMA RetiredInit == Init => RetiredInv
<1> SUFFICES ASSUME Init PROVE RetiredInv
  OBVIOUS
<1> USE DEF Init, RegistryInit
<1>1. Places = {} /\ None.id = 0 /\ (\A c \in Calls : call[c].id = 0 /\ call[c].op = "none")
  BY DEF Places, None, IdleCall
<1>2. \A i \in Items : agent[i].id = 0 /\ tmps[i] = {}
  BY <1>1
<1>3. \A i \in Items : Has[i] = {}
  BY <1>1, <1>2, RegistryAssumption DEF Has, Ids
<1>4. OneItem
  BY <1>3 DEF OneItem
<1> QED
  BY <1>1, <1>4 DEF RetiredInv, RetiredGiven, NoneBack, NoneComes, Making

(* What Has holds, and that it holds nothing else.                         *)
LEMMA HasFacts ==
    ASSUME TypeInv
    PROVE  /\ \A i \in Items : agent[i].id = 0 \/ agent[i].id \in Has[i]
           /\ \A i \in Items : \A r \in tmps[i] : r.id \in Has[i]
           /\ \A k \in Places : chain[k].rec.id \in Has[chain[k].item] /\ chain[k].item \in Items
           /\ \A c \in Calls : call[c].id = 0 \/ call[c].item = 0 \/ call[c].id \in Has[call[c].item]
           /\ 0 \notin Ids
<1>1. FileTypes /\ CallTypes /\ HistoryTypes
  BY TypeParts
<1>2. \A i \in Items : /\ agent[i].id = 0 \/ agent[i].id \in Ids
                       /\ \A r \in tmps[i] : r.id \in Ids
  BY <1>1 DEF FileTypes, Records, None
<1>3. \A k \in Places : chain[k].rec.id \in Ids /\ chain[k].item \in Items
  BY OrderTypes DEF Records
<1>4. \A c \in Calls : /\ call[c].id = 0 \/ call[c].id \in Ids
                       /\ call[c].item = 0 \/ call[c].item \in Items
  BY <1>1, RegistryAssumption DEF CallTypes, CallRecords, Ids, Items
<1>5. 0 \notin Ids
  BY RegistryAssumption DEF Ids
<1> QED
  BY <1>2, <1>3, <1>4, <1>5 DEF Has

LEMMA OneItemStays ==
    ASSUME OneItem, \A i \in Items : Has'[i] \subseteq Has[i]
    PROVE  OneItem'
BY DEF OneItem

(* One call moves on: it names the agent that it named, or that it found.  *)
LEMMA HasMoves ==
    ASSUME TypeInv, TypeInv', NEW c \in Calls, \A d \in Calls : d # c => call'[d] = call[d],
           UNCHANGED <<agent, tmps, chain>>,
           call'[c].id # 0 => \/ call'[c].item = call[c].item /\ call'[c].id = call[c].id
                              \/ call'[c].id = agent[call'[c].item].id
    PROVE  \A i \in Items : Has'[i] \subseteq Has[i]
<1> SUFFICES ASSUME NEW i \in Items, NEW id \in Has'[i] PROVE id \in Has[i]
  OBVIOUS
<1>1. /\ id \in Ids
      /\ \/ agent'[i].id = id
         \/ \E r \in tmps'[i] : r.id = id
         \/ \E k \in Places' : chain'[k].item = i /\ chain'[k].rec.id = id
         \/ \E d \in Calls : call'[d].item = i /\ call'[d].id = id
  BY DEF Has
<1>2. id # 0 /\ Places' = Places
  BY <1>1, HasFacts DEF Places
<1>3. ASSUME NEW d \in Calls, call'[d].item = i, call'[d].id = id PROVE id \in Has[i]
  <2>1. CASE d # c
    BY <1>1, <1>3, <2>1 DEF Has
  <2>2. CASE d = c
    BY <1>1, <1>2, <1>3, <2>2 DEF Has
  <2> QED
    BY <2>1, <2>2
<1> QED
  BY <1>1, <1>2, <1>3 DEF Has

(* One call moves on, and retires no agent.                                *)
LEMMA MovesKeepRetired ==
    ASSUME TypeInv, TypeInv', RetiredInv, NEW c \in Calls, \A d \in Calls : d # c => call'[d] = call[d],
           UNCHANGED <<agent, tmps, chain, retired, ids>>,
           \A i \in Items : dir'[i] => dir[i],
           ExcusedItems \subseteq ExcusedItems',
           \A d \in Calls : Making(d) /\ call[d].item \in Going => call[d].item \in Going' \cup ExcusedItems',
           call'[c].op = "create" /\ call'[c].pc \in {"get", "mkdir"} =>
               \/ call'[c].after = Len(chain)
               \/ /\ call[c].op = "create" /\ call[c].pc = "get"
                  /\ call'[c].item = call[c].item /\ call'[c].after = call[c].after,
           call'[c].id # 0 => \/ call'[c].item = call[c].item /\ call'[c].id = call[c].id
                              \/ call'[c].id = agent[call'[c].item].id
    PROVE  RetiredInv'
<1>1. OneItem'
  BY HasMoves, OneItemStays DEF RetiredInv
<1>2. RetiredGiven'
  BY DEF RetiredInv, RetiredGiven
<1>3. NoneBack'
  BY DEF RetiredInv, NoneBack, Places
<1>4. NoneComes'
  <2> SUFFICES ASSUME NEW d \in Calls, Making(d)', call'[d].item \notin ExcusedItems' \cup Going',
                      NEW k \in Places, k > call'[d].after, chain[k].item = call'[d].item
               PROVE  chain[k].rec.id \notin retired
    BY DEF NoneComes, NoneComesTo, Places
  <2>1. k <= Len(chain) /\ Len(chain) \in Nat /\ k \in Nat
    BY OrderTypes DEF Places
  <2>2. CASE call'[d].after = Len(chain)
    BY <2>1, <2>2
  <2>3. CASE call[d].op = "create" /\ call[d].pc \in {"get", "mkdir"}
             /\ call'[d].item = call[d].item /\ call'[d].after = call[d].after
    <3>1. Making(d) /\ call[d].item \notin ExcusedItems \cup Going
      BY <2>3 DEF Making
    <3> QED
      BY <2>3, <3>1 DEF RetiredInv, NoneComes, NoneComesTo
  <2> QED
    BY <2>2, <2>3 DEF Making
<1> QED
  BY <1>1, <1>2, <1>3, <1>4 DEF RetiredInv

(* A write is asked for, about an agent that was not retired, or by a late *)
(* status; its id is a new one, or the one that its caller names.          *)
LEMMA AskKeepsRetired ==
    ASSUME TypeInv, TypeInv', DiskInv, RetiredInv, NEW c \in Calls, NEW i \in Items, NEW id \in Ids,
           NEW new \in BOOLEAN, Ask(i, id, new), Return(c), call[c].op # "delete",
           UNCHANGED <<dir, agent, tmps, retired, raced, crossed>>, late \subseteq late',
           i \notin late' => id \notin retired,
           ids <= ids', ids' \in Nat,
           id > ids \/ id \in Has[i]
    PROVE  RetiredInv'
<1>0. PICK n \in Nat :
          /\ Len(chain) \in Nat /\ n = Len(chain) + 1 /\ Len(chain') = n /\ n \in 1..n
          /\ \A k \in 1..n : k # n => k < n /\ k \in 1..Len(chain) /\ chain'[k] = chain[k]
          /\ chain'[n].item = i /\ chain'[n].rec.id = id /\ chain'[n].rec.ticket = writes'
          /\ chain'[n].new = new /\ chain'[n].step = "asked"
  BY AskedLast
<1>1. /\ Places' = 1..n
      /\ \A k \in Places' : k # n => k < n /\ k \in Places /\ chain'[k] = chain[k]
  BY <1>0 DEF Places
<1>2. /\ call'[c].op = "none" /\ call'[c].pc = "idle" /\ call'[c].id = 0
      /\ \A d \in Calls : d # c => call'[d] = call[d]
  BY ReturnFacts
<1>3. \A j \in Items : \A x \in Has'[j] : x \in Has[j] \/ (x = id /\ j = i)
  <2> SUFFICES ASSUME NEW j \in Items, NEW x \in Has'[j] PROVE x \in Has[j] \/ (x = id /\ j = i)
    OBVIOUS
  <2>1. /\ x \in Ids
        /\ \/ agent'[j].id = x
           \/ \E r \in tmps'[j] : r.id = x
           \/ \E k \in Places' : chain'[k].item = j /\ chain'[k].rec.id = x
           \/ \E d \in Calls : call'[d].item = j /\ call'[d].id = x
    BY DEF Has
  <2>2. x # 0
    BY <2>1, HasFacts
  <2>3. ASSUME NEW k \in Places', chain'[k].item = j, chain'[k].rec.id = x
        PROVE  x \in Has[j] \/ (x = id /\ j = i)
    <3>1. CASE k = n
      BY <1>0, <2>3, <3>1
    <3>2. CASE k # n
      BY <1>1, <2>1, <2>3, <3>2 DEF Has
    <3> QED
      BY <3>1, <3>2
  <2>4. ASSUME NEW d \in Calls, call'[d].item = j, call'[d].id = x PROVE x \in Has[j]
    BY <1>2, <2>1, <2>2, <2>4 DEF Has
  <2> QED
    BY <2>1, <2>3, <2>4 DEF Has
<1>4. \A j \in Items : \A x \in Has[j] : x <= ids
  BY DEF Has, DiskInv, IdsGiven
<1>5. OneItem'
  <2> SUFFICES ASSUME NEW j \in Items, NEW k \in Items, NEW x \in Has'[j], x \in Has'[k]
               PROVE  j = k
    BY DEF OneItem
  <2>1. (x \in Has[j] \/ (x = id /\ j = i)) /\ (x \in Has[k] \/ (x = id /\ k = i))
    BY <1>3
  <2>2. CASE id \in Has[i]
    BY <2>1, <2>2 DEF RetiredInv, OneItem
  <2>3. CASE id > ids
    <3>1. \A l \in Items : id \notin Has[l]
      BY <1>4, <2>3, OrderTypes DEF Ids
    <3> QED
      BY <2>1, <3>1 DEF RetiredInv, OneItem
  <2> QED
    BY <2>2, <2>3
<1>6. RetiredGiven'
  <2>1. retired \subseteq Nat /\ ids \in Nat
    BY TypeParts, OrderTypes DEF HistoryTypes, Ids
  <2> SUFFICES ASSUME NEW x \in retired PROVE x <= ids'
    BY DEF RetiredGiven
  <2>2. x \in Nat /\ x <= ids
    BY <2>1 DEF RetiredInv, RetiredGiven
  <2> QED
    BY <2>1, <2>2
<1>7. \A k \in Places' : chain'[k].item \notin ExcusedItems' =>
          (k = n /\ chain'[k].rec.id \notin retired) \/ (k \in Places /\ chain'[k] = chain[k])
  BY <1>0, <1>1 DEF ExcusedItems
<1>8. \A j \in Items : j \notin ExcusedItems' => j \notin ExcusedItems
  BY DEF ExcusedItems
<1>9. NoneBack'
  BY <1>7, <1>8 DEF RetiredInv, NoneBack
<1>10. \A d \in Calls : Making(d)' => Making(d) /\ call'[d] = call[d] /\ d # c
  BY <1>2 DEF Making
<1>11. NoneComes'
  <2> SUFFICES ASSUME NEW d \in Calls, Making(d)', call'[d].item \notin ExcusedItems' \cup Going',
                      NEW k \in Places', k > call'[d].after, chain'[k].item = call'[d].item
               PROVE  chain'[k].rec.id \notin retired'
    BY DEF NoneComes, NoneComesTo
  <2>1. Making(d) /\ call'[d] = call[d] /\ call[d].item \notin ExcusedItems
    BY <1>10, <1>8 DEF ExcusedItems
  <2>2. CASE k = n
    BY <1>7, <2>2, <1>0 DEF ExcusedItems
  <2>3. CASE k # n
    <3>1. k \in Places /\ chain'[k] = chain[k]
      BY <1>1, <2>3
    <3>2. call[d].item \in Going => call[d].item \in Going'
      <4>1. \A e \in Calls : At(e, "delete", "rmItem") => e # c /\ call'[e] = call[e]
        BY <1>2 DEF At
      <4> QED
        BY <4>1 DEF Going, GoesAway, At
    <3> QED
      BY <2>1, <3>1, <3>2 DEF RetiredInv, NoneComes, NoneComesTo
  <2> QED
    BY <2>2, <2>3
<1> QED
  BY <1>5, <1>6, <1>9, <1>11 DEF RetiredInv

(* The work items that go away depend on where the calls are.              *)
LEMMA GoingStays ==
    ASSUME \A c \in Calls : /\ call'[c].op = call[c].op /\ call'[c].pc = call[c].pc
                            /\ call'[c].item = call[c].item
    PROVE  Going' = Going
BY DEF Going, GoesAway, At

LEMMA WriteKeepsRetired ==
    ASSUME TypeInv, TypeInv', ItemInv, RetiredInv, UNCHANGED <<items, raced, crashes>>,
           WriteTmp \/ WriteRemoves \/ WriteRenames
    PROVE  RetiredInv'
<1>0. chain # <<>>
  BY DEF WriteTmp, WriteRemoves, WriteRenames
<1> DEFINE i == chain[1].item
           rec == chain[1].rec
<1>1. /\ FileTypes /\ Head(chain) = chain[1] /\ 1 \in Places /\ Len(chain) \in Nat
      /\ i \in Items /\ rec \in Records /\ rec.id \in Has[i]
  BY <1>0, HeadFacts, HasFacts, TypeParts DEF Places
<1>2. UNCHANGED <<dir, retired, ids, ExcusedItems>>
  BY DEF WriteTmp, WriteRemoves, WriteRenames, countVars, historyVars, ExcusedItems
<1>3. \/ UNCHANGED call /\ \E step \in {"tmp", "removed"} : chain' = [chain EXCEPT ![1].step = step]
      \/ WriteEnds /\ UNCHANGED writes
  BY DEF WriteTmp, WriteRemoves, WriteRenames, countVars
<1>4. \A c \in Calls : /\ call'[c].op = call[c].op /\ call'[c].pc = call[c].pc
                       /\ call'[c].item = call[c].item /\ call'[c].id = call[c].id
  BY <1>0, <1>3, WriteEndsFacts
<1>5. \A k \in Places' : \E j \in Places :
          /\ chain'[k].item = chain[j].item /\ chain'[k].rec = chain[j].rec
          /\ \A c \in Calls : k > call'[c].after => j > call[c].after
  <2>1. ASSUME UNCHANGED call, NEW step \in {"tmp", "removed"}, chain' = [chain EXCEPT ![1].step = step],
               NEW k \in Places'
        PROVE  k \in Places /\ chain'[k].item = chain[k].item /\ chain'[k].rec = chain[k].rec
    BY <1>0, <2>1, StepFacts DEF Places
  <2>2. ASSUME WriteEnds, UNCHANGED writes, NEW k \in Places'
        PROVE  /\ k + 1 \in Places /\ chain'[k] = chain[k + 1]
               /\ \A c \in Calls : k > call'[c].after => k + 1 > call[c].after
    <3>1. /\ Len(chain') = Len(chain) - 1 /\ Len(chain') \in Nat
          /\ \A l \in 1..Len(chain') : chain'[l] = chain[l + 1]
      BY <1>0, <2>2, WriteEndsFacts
    <3>2. k \in Nat /\ k + 1 \in Places /\ chain'[k] = chain[k + 1]
      BY <1>1, <3>1 DEF Places
    <3>3. \A c \in Calls : call[c].after \in Nat
      BY TypeParts, RegistryAssumption DEF CallTypes, CallRecords
    <3>4. ASSUME NEW c \in Calls, k > call'[c].after PROVE k + 1 > call[c].after
      <4>1. call[c] \in CallRecords
        BY TypeParts DEF CallTypes
      <4>2. call'[c] = [call[c] EXCEPT !.after = IF call[c].after = 0 THEN 0 ELSE call[c].after - 1]
        BY <2>2 DEF WriteEnds
      <4>3. call'[c].after = IF call[c].after = 0 THEN 0 ELSE call[c].after - 1
        BY <4>1, <4>2 DEF CallRecords
      <4> QED
        BY <3>2, <3>3, <3>4, <4>3
    <3> QED
      BY <3>2, <3>4
  <2> QED
    BY <1>3, <2>1, <2>2
<1>6. /\ \A j \in Items : agent'[j] \in {agent[j], None} \/ (j = i /\ agent'[j] = rec /\ dir[j])
      /\ \A j \in Items : \A r \in tmps'[j] : r \in tmps[j] \/ (j = i /\ r = rec)
  <2>1. rec \in tmps[i] => dir[i]
    BY <1>1 DEF ItemInv, InDirectory
  <2> QED
    BY <1>1, <2>1 DEF FileTypes, WriteTmp, WriteRemoves, WriteRenames
<1>7. None.id = 0 /\ 0 \notin retired /\ 0 \notin Ids
  BY HasFacts, TypeParts DEF None, HistoryTypes
<1> HIDE DEF i, rec
<1>8. \A j \in Items : Has'[j] \subseteq Has[j]
  <2> SUFFICES ASSUME NEW j \in Items, NEW id \in Has'[j] PROVE id \in Has[j]
    OBVIOUS
  <2>1. /\ id \in Ids
        /\ \/ agent'[j].id = id
           \/ \E r \in tmps'[j] : r.id = id
           \/ \E k \in Places' : chain'[k].item = j /\ chain'[k].rec.id = id
           \/ \E c \in Calls : call'[c].item = j /\ call'[c].id = id
    BY DEF Has
  <2>2. CASE agent'[j].id = id
    BY <1>1, <1>6, <1>7, <2>1, <2>2 DEF Has
  <2>3. CASE \E r \in tmps'[j] : r.id = id
    BY <1>1, <1>6, <2>1, <2>3 DEF Has
  <2>4. CASE \E k \in Places' : chain'[k].item = j /\ chain'[k].rec.id = id
    BY <1>5, <2>1, <2>4 DEF Has
  <2>5. CASE \E c \in Calls : call'[c].item = j /\ call'[c].id = id
    BY <1>4, <2>1, <2>5 DEF Has
  <2> QED
    BY <2>1, <2>2, <2>3, <2>4, <2>5
<1>9. OneItem' /\ RetiredGiven'
  BY <1>2, <1>8, OneItemStays DEF RetiredInv, RetiredGiven
<1>10. NoneBack'
  <2> SUFFICES ASSUME NEW j \in Items, dir[j], j \notin ExcusedItems
               PROVE  /\ agent'[j].id \notin retired
                      /\ \A k \in Places' : chain'[k].item = j => chain'[k].rec.id \notin retired
    BY <1>2 DEF NoneBack
  <2>1. /\ agent[j].id \notin retired
        /\ \A k \in Places : chain[k].item = j => chain[k].rec.id \notin retired
    BY DEF RetiredInv, NoneBack
  <2>2. j = i => rec.id \notin retired
    BY <1>1, <2>1 DEF i, rec
  <2>3. agent'[j].id \notin retired
    BY <1>6, <1>7, <2>1, <2>2
  <2> QED
    BY <1>5, <2>1, <2>3
<1>11. NoneComes'
  <2> SUFFICES ASSUME NEW c \in Calls, Making(c)', call'[c].item \notin ExcusedItems' \cup Going',
                      NEW k \in Places', k > call'[c].after, chain'[k].item = call'[c].item
               PROVE  chain'[k].rec.id \notin retired'
    BY DEF NoneComes, NoneComesTo
  <2>1. Making(c) /\ call[c].item = call'[c].item /\ call[c].item \notin ExcusedItems \cup Going
    BY <1>2, <1>4, GoingStays DEF Making
  <2>2. PICK j \in Places : /\ chain'[k].item = chain[j].item /\ chain'[k].rec = chain[j].rec
                            /\ j > call[c].after
    BY <1>5
  <2> QED
    BY <1>2, <2>1, <2>2 DEF RetiredInv, NoneComes, NoneComesTo
<1> QED
  BY <1>9, <1>10, <1>11 DEF RetiredInv

(* The files of item i go away, and their agents are retired.              *)
LEMMA RetireKeepsRetired ==
    ASSUME TypeInv, TypeInv', DiskInv, RetiredInv, NEW c \in Calls, call[c].item \in Items,
           \A d \in Calls : d # c => call'[d] = call[d], UNCHANGED <<chain, ids, late, raced>>,
           dir' = [dir EXCEPT ![call[c].item] = FALSE],
           agent' = [agent EXCEPT ![call[c].item] = None],
           tmps' = [tmps EXCEPT ![call[c].item] = {}],
           retired' \subseteq retired \cup IdsAt(call[c].item) \cup ({call[c].id} \ {0}),
           crossed \subseteq crossed', call[c].op # "delete" \/ call[c].pc # "rmItem",
           \A d \in Calls : d # c /\ call[d].op = "create" /\ call[d].item = call[c].item =>
               call[c].item \in ExcusedItems' \cup Going',
           call'[c].op = "create" => call'[c].after = Len(chain),
           call'[c].item = call[c].item, call'[c].id \in {0, call[c].id}
    PROVE  RetiredInv'
<1> DEFINE i == call[c].item
<1>1. FileTypes /\ HistoryTypes /\ 0 \notin Ids
  BY TypeParts, HasFacts
<1>2. /\ ~dir'[i] /\ agent'[i] = None /\ tmps'[i] = {} /\ None.id = 0 /\ Places' = Places
      /\ \A j \in Items : j # i => dir'[j] = dir[j] /\ agent'[j] = agent[j] /\ tmps'[j] = tmps[j]
  BY <1>1 DEF FileTypes, None, Places
<1>3. \A x \in retired' : x \in retired \/ x \in Has[i]
  <2>1. IdsAt(i) \subseteq Has[i]
    BY HasFacts DEF IdsAt
  <2>2. call[c].id = 0 \/ call[c].id \in Has[i]
    <3>1. i # 0
      BY RegistryAssumption DEF Items
    <3> QED
      BY <3>1, HasFacts
  <2> QED
    BY <2>1, <2>2
<1>4. \A j \in Items : j # i => \A x \in Has[j] : x \in retired' => x \in retired
  BY <1>3 DEF RetiredInv, OneItem
<1>5. \A j \in Items : Has'[j] \subseteq Has[j]
  <2> SUFFICES ASSUME NEW j \in Items, NEW id \in Has'[j] PROVE id \in Has[j]
    OBVIOUS
  <2>1. /\ id \in Ids
        /\ \/ agent'[j].id = id
           \/ \E r \in tmps'[j] : r.id = id
           \/ \E k \in Places' : chain'[k].item = j /\ chain'[k].rec.id = id
           \/ \E d \in Calls : call'[d].item = j /\ call'[d].id = id
    BY DEF Has
  <2>2. CASE agent'[j].id = id \/ \E r \in tmps'[j] : r.id = id
    BY <1>1, <1>2, <2>1, <2>2 DEF Has
  <2>3. CASE \E k \in Places' : chain'[k].item = j /\ chain'[k].rec.id = id
    BY <1>2, <2>1, <2>3 DEF Has
  <2>4. ASSUME NEW d \in Calls, call'[d].item = j, call'[d].id = id PROVE id \in Has[j]
    <3>1. call[d].item = j /\ call[d].id = id
      BY <1>1, <2>1, <2>4
    <3> QED
      BY <2>1, <3>1 DEF Has
  <2> QED
    BY <2>1, <2>2, <2>3, <2>4
<1>6. OneItem'
  BY <1>5, OneItemStays DEF RetiredInv
<1>7. RetiredGiven'
  <2>1. \A x \in Has[i] : x <= ids
    BY DEF Has, DiskInv, IdsGiven
  <2> QED
    BY <1>3, <2>1 DEF RetiredInv, RetiredGiven
<1>8. \A j \in Items : j \notin ExcusedItems' => j \notin ExcusedItems
  BY DEF ExcusedItems
<1> HIDE DEF i
<1>9. NoneBack'
  <2> SUFFICES ASSUME NEW j \in Items, dir'[j], j \notin ExcusedItems'
               PROVE  /\ agent'[j].id \notin retired'
                      /\ \A k \in Places : chain[k].item = j => chain[k].rec.id \notin retired'
    BY <1>2 DEF NoneBack
  <2>1. j # i /\ dir[j] /\ j \notin ExcusedItems /\ agent'[j] = agent[j]
    BY <1>2, <1>8
  <2>2. /\ agent[j].id \notin retired
        /\ \A k \in Places : chain[k].item = j => chain[k].rec.id \notin retired
    BY <2>1 DEF RetiredInv, NoneBack
  <2>3. /\ agent[j].id = 0 \/ agent[j].id \in Has[j]
        /\ \A k \in Places : chain[k].item = j => chain[k].rec.id \in Has[j]
    BY HasFacts
  <2>4. 0 \notin retired'
    BY <1>1, TypeInv', TypeParts DEF TypeInv, TypeOK, RegistryTypeOK
  <2> QED
    BY <1>4, <2>1, <2>2, <2>3, <2>4
<1>10. NoneComes'
  <2> SUFFICES ASSUME NEW d \in Calls, Making(d)', call'[d].item \notin ExcusedItems' \cup Going',
                      NEW k \in Places, k > call'[d].after, chain[k].item = call'[d].item
               PROVE  chain[k].rec.id \notin retired'
    BY <1>2 DEF NoneComes, NoneComesTo
  <2>1. k <= Len(chain) /\ Len(chain) \in Nat /\ k \in Nat /\ chain[k].item \in Items
    BY OrderTypes DEF Places
  <2>2. CASE d = c
    BY <2>1, <2>2 DEF Making
  <2>3. CASE d # c
    <3>1. /\ call'[d] = call[d] /\ Making(d) /\ call[d].item # i /\ call[d].item \notin ExcusedItems
          /\ call[d].op = "create" /\ call[d].item \in Items
      BY <1>8, <2>1, <2>3 DEF Making, i
    <3>2. call[d].item \notin Going
      <4>1. \A e \in Calls : At(e, "delete", "rmItem") => e # c /\ call'[e] = call[e]
        BY DEF At
      <4> QED
        BY <3>1, <4>1 DEF Going, GoesAway, At
    <3>3. chain[k].rec.id \notin retired
      BY <2>3, <3>1, <3>2 DEF RetiredInv, NoneComes, NoneComesTo
    <3>4. chain[k].rec.id \in Has[call[d].item]
      BY <3>1, HasFacts
    <3> QED
      BY <1>4, <3>1, <3>3, <3>4
  <2> QED
    BY <2>2, <2>3
<1> QED
  BY <1>6, <1>7, <1>9, <1>10 DEF RetiredInv

-----------------------------------------------------------------------------
(* Where the fields of a call come from that the agents depend on.         *)
LEMMA GotoAfter ==
    ASSUME NEW c \in Calls, NEW pc \in Pcs, TypeInv, Goto(c, pc)
    PROVE  call'[c].after = call[c].after
<1>1. call \in [Calls -> CallRecords]
  BY TypeParts DEF CallTypes
<1>2. call'[c] = [call[c] EXCEPT !.pc = pc] /\ call[c] \in CallRecords
  BY <1>1 DEF Goto
<1> QED
  BY <1>2 DEF CallRecords

LEMMA GettingAfter ==
    ASSUME NEW c \in Calls, NEW op, NEW i, NEW id, TypeInv, Getting(c, op, i, id)
    PROVE  call'[c].after = Len(chain)
<1>1. call \in [Calls -> CallRecords]
  BY TypeParts DEF CallTypes
<1>2. call'[c] = [op |-> op, pc |-> "get", item |-> i, id |-> id, after |-> Len(chain)]
  BY <1>1 DEF Getting
<1> QED
  BY <1>2

(* What get() found decides what its caller does next.                     *)
LEMMA ReadMoves ==
    ASSUME TypeInv, NEW c \in Calls, Read(c)
    PROVE  /\ \A d \in Calls : d # c => call'[d] = call[d]
           /\ \/ call'[c].op = "none" /\ call'[c].pc = "idle" /\ call'[c].id = 0
              \/ /\ call'[c].op = call[c].op /\ call'[c].item = call[c].item
                 /\ call'[c].after = call[c].after /\ call[c].after = 0
                 /\ call'[c].id \in {call[c].id, agent[call[c].item].id}
<1>0. call \in [Calls -> CallRecords]
  BY TypeParts DEF CallTypes
<1>1. CASE \E pc \in {"mkdir", "archive"} : Goto(c, pc)
  <2>1. PICK pc \in {"mkdir", "archive"} : Goto(c, pc)
    BY <1>1
  <2>2. pc \in Pcs
    BY DEF Pcs
  <2> QED
    BY <2>1, <2>2, GotoFacts, GotoAfter DEF Read
<1>2. CASE Return(c)
  BY <1>2, ReturnFacts
<1>3. CASE call' = [call EXCEPT ![c].pc = "hold", ![c].id = agent[call[c].item].id]
  <2> DEFINE f == [call EXCEPT ![c].pc = "hold"]
             id == agent[call[c].item].id
  <2>1. /\ f \in [Calls -> CallRecords] /\ (\A d \in Calls : d # c => f[d] = call[d])
        /\ f[c] = [call[c] EXCEPT !.pc = "hold"]
    BY <1>0 DEF CallRecords, Pcs
  <2>2. call' = [f EXCEPT ![c].id = id]
    BY <1>3
  <2>3. f[c].op = call[c].op /\ f[c].item = call[c].item /\ f[c].after = call[c].after
    BY <1>0, <2>1 DEF CallRecords
  <2> HIDE DEF f, id
  <2>4. call'[c] = [f[c] EXCEPT !.id = id] /\ \A d \in Calls : d # c => call'[d] = f[d]
    BY <2>1, <2>2
  <2>5. /\ call'[c].id = id /\ call'[c].op = f[c].op
        /\ call'[c].item = f[c].item /\ call'[c].after = f[c].after
    BY <2>1, <2>4 DEF CallRecords
  <2>6. call[c].after = 0
    BY DEF Read
  <2> QED
    BY <2>1, <2>3, <2>4, <2>5, <2>6 DEF id
<1> QED
  BY <1>1, <1>2, <1>3 DEF Read

(* A call that makes a directory has waited for all the writes it had to.  *)
Waited == \A c \in Calls : call[c].pc = "mkdir" => call[c].after = 0

LEMMA WaitedMove ==
    ASSUME Waited, NEW c \in Calls, \A d \in Calls : d # c => call'[d] = call[d],
           call'[c].pc # "mkdir" \/ call'[c].after = 0
    PROVE  Waited'
BY DEF Waited

LEMMA WriteKeepsWaited ==
    ASSUME TypeInv, Waited, WriteTmp \/ WriteRemoves \/ WriteRenames
    PROVE  Waited'
<1>1. CASE UNCHANGED call
  BY <1>1 DEF Waited
<1>2. CASE WriteEnds
  <2> SUFFICES ASSUME NEW c \in Calls, call'[c].pc = "mkdir" PROVE call'[c].after = 0
    BY DEF Waited
  <2>1. call[c] \in CallRecords
    BY TypeParts DEF CallTypes
  <2>2. call'[c] = [call[c] EXCEPT !.after = IF call[c].after = 0 THEN 0 ELSE call[c].after - 1]
    BY <1>2 DEF WriteEnds
  <2>3. call'[c].pc = call[c].pc
        /\ call'[c].after = IF call[c].after = 0 THEN 0 ELSE call[c].after - 1
    BY <2>1, <2>2 DEF CallRecords
  <2> QED
    BY <2>3 DEF Waited
<1> QED
  BY <1>1, <1>2 DEF WriteTmp, WriteRemoves, WriteRenames

LEMMA WaitedStep == TypeInv /\ Waited /\ [Next]_vars => Waited'
<1> SUFFICES ASSUME TypeInv, Waited, [Next]_vars PROVE Waited'
  OBVIOUS
<1>1. ASSUME NEW c \in Calls, NEW i \in Items, AskStatus(c, i) \/ AskReset(c, i) \/ AskCreate(c, i)
      PROVE  Waited'
  <2>1. PICK op \in Ops, id \in 0..MaxIds : Getting(c, op, i, id)
    <3>1. agent[i].id \in 0..MaxIds /\ 0 \in 0..MaxIds
      BY TypeParts, RegistryAssumption DEF FileTypes, Records, None, Ids
    <3> QED
      BY <1>1, <3>1 DEF AskStatus, AskReset, AskCreate, Ops
  <2> QED
    BY <2>1, GettingMoves, WaitedMove
<1>2. ASSUME NEW c \in Calls, Read(c) PROVE Waited'
  BY <1>2, ReadMoves, WaitedMove
<1>3. ASSUME NEW c \in Calls, Return(c) PROVE Waited'
  BY <1>3, ReturnFacts, WaitedMove
<1>4. ASSUME NEW c \in Calls, NEW pc \in Pcs \ {"mkdir"}, Goto(c, pc) PROVE Waited'
  BY <1>4, GotoFacts, WaitedMove
<1>5. ASSUME NEW c \in Calls, NEW i \in Items, NEW op \in Ops, NEW pc \in Pcs \ {"mkdir"},
             Begin(c, op, pc, i)
      PROVE  Waited'
  BY <1>5, BeginMoves, WaitedMove
<1>6. ASSUME NEW c \in Calls, Archive(c) PROVE Waited'
  <2>1. CASE dir[call[c].item]
    <3>1. call[c].item \in Items /\ Getting(c, "create", call[c].item, 0)
          /\ "create" \in Ops /\ 0 \in 0..MaxIds
      BY <1>6, <2>1, TypeParts, RegistryAssumption DEF Archive, At, CallTypes, Slots, Ops
    <3> QED
      BY <3>1, GettingMoves, WaitedMove
  <2>2. CASE ~dir[call[c].item]
    BY <1>3, <1>6, <2>2 DEF Archive
  <2> QED
    BY <2>1, <2>2
<1>7. CASE RegistryStep
  BY <1>1, <1>2, <1>3, <1>6, <1>7, WriteKeepsWaited DEF RegistryStep, WriteNew, SetStatus
<1>8. CASE ItemStep
  <2>1. PICK c \in Calls :
            \/ \E i \in Items : AskCreate(c, i) \/ AskDelete(c, i)
            \/ Mkdir(c) \/ AskItem(c) \/ MakeItem(c) \/ WriteManifest(c)
            \/ RemoveAgents(c) \/ RemoveItem(c)
    BY <1>8 DEF ItemStep
  <2>2. CASE \E i \in Items : AskDelete(c, i)
    BY <1>5, <2>2 DEF AskDelete, Ops, Pcs
  <2>3. CASE AskItem(c)
    BY <1>5, <2>3 DEF AskItem, Ops, Pcs
  <2>4. CASE Mkdir(c) \/ MakeItem(c) \/ RemoveAgents(c)
    BY <1>3, <1>4, <2>4 DEF Mkdir, MakeItem, RemoveAgents, Pcs
  <2>5. CASE WriteManifest(c) \/ RemoveItem(c)
    BY <1>3, <2>5 DEF WriteManifest, RemoveItem
  <2> QED
    BY <1>1, <2>1, <2>2, <2>3, <2>4, <2>5
<1>9. CASE Crash
  BY <1>9 DEF Crash, Waited, IdleCall
<1>10. CASE UNCHANGED vars
  BY <1>10 DEF vars, registryVars, Waited
<1> QED
  BY <1>7, <1>8, <1>9, <1>10 DEF Next

(* A call that is not about to remove a work item moves on: those that go  *)
(* away still do.                                                          *)
LEMMA GoingKept ==
    ASSUME NEW c \in Calls, \A d \in Calls : d # c => call'[d] = call[d],
           ~At(c, "delete", "rmItem")
    PROVE  Going \subseteq Going'
<1>1. \A e \in Calls : At(e, "delete", "rmItem") => e # c /\ call'[e] = call[e]
  BY DEF At
<1> QED
  BY <1>1 DEF Going, GoesAway, At

LEMMA CallKeepsRetired ==
    ASSUME TypeInv, TypeInv', DiskInv, RetiredInv, NEW c \in Calls,
           UNCHANGED <<items, raced, crashes>>,
           \/ \E i \in Items : AskStatus(c, i) \/ AskReset(c, i)
           \/ Read(c) \/ Archive(c) \/ WriteNew(c) \/ SetStatus(c)
    PROVE  RetiredInv'
<1>1. /\ FileTypes /\ CallTypes /\ HistoryTypes /\ ids \in Nat /\ 0 \in 0..MaxIds
      /\ (call[c].op # "none" => call[c].item \in Items)
      /\ (call[c].op = "reset" \/ (call[c].op = "status" /\ call[c].pc = "hold") => call[c].id \in Ids)
  BY TypeParts, OrderTypes, RegistryAssumption DEF CallTypes, Slots
<1>2. ASSUME NEW i \in Items, AskStatus(c, i) PROVE RetiredInv'
  <2>1. /\ Getting(c, "status", i, 0) /\ "status" \in Ops /\ ~At(c, "delete", "rmItem")
        /\ UNCHANGED <<dir, agent, tmps, chain, retired, ids, ExcusedItems>>
    BY <1>2 DEF AskStatus, Ops, At, fileVars, countVars, historyVars, ExcusedItems
  <2>2. call'[c].op = "status" /\ call'[c].id = 0 /\ \A d \in Calls : d # c => call'[d] = call[d]
    BY <1>1, <2>1, GettingMoves
  <2> QED
    BY <2>1, <2>2, GoingKept, MovesKeepRetired
<1>3. ASSUME NEW i \in Items, AskReset(c, i) PROVE RetiredInv'
  <2> DEFINE id == agent[i].id
  <2>1. /\ Getting(c, "reset", i, id) /\ "reset" \in Ops /\ ~At(c, "delete", "rmItem")
        /\ UNCHANGED <<dir, agent, tmps, chain, retired, ids, ExcusedItems>>
    BY <1>3 DEF AskReset, Ops, At, fileVars, countVars, historyVars, ExcusedItems
  <2>2. id \in 0..MaxIds
    BY <1>1, <1>3 DEF AskReset, FileTypes, Records, Ids
  <2>3. id = agent[i].id
    OBVIOUS
  <2> HIDE DEF id
  <2>4. /\ call'[c].op = "reset" /\ call'[c].item = i /\ call'[c].id = id
        /\ \A d \in Calls : d # c => call'[d] = call[d]
    BY <2>1, <2>2, GettingMoves
  <2> QED
    BY <2>1, <2>3, <2>4, GoingKept, MovesKeepRetired
<1>4. ASSUME Read(c) PROVE RetiredInv'
  <2>1. /\ call[c].pc = "get" /\ ~At(c, "delete", "rmItem")
        /\ UNCHANGED <<dir, agent, tmps, chain, retired, ids, ExcusedItems>>
    BY <1>4 DEF Read, At, fileVars, countVars, historyVars, ExcusedItems
  <2>2. /\ \A d \in Calls : d # c => call'[d] = call[d]
        /\ \/ call'[c].op = "none" /\ call'[c].pc = "idle" /\ call'[c].id = 0
           \/ /\ call'[c].op = call[c].op /\ call'[c].item = call[c].item
              /\ call'[c].after = call[c].after
              /\ call'[c].id \in {call[c].id, agent[call[c].item].id}
    BY <1>4, ReadMoves
  <2>3. call'[c].op = "create" => /\ call[c].op = "create" /\ call'[c].item = call[c].item
                                  /\ call'[c].after = call[c].after
    BY <2>2
  <2>4. call'[c].id # 0 => \/ call'[c].item = call[c].item /\ call'[c].id = call[c].id
                           \/ call'[c].id = agent[call'[c].item].id
    BY <2>2
  <2>5. Going \subseteq Going'
    BY <2>1, <2>2, GoingKept
  <2> QED
    BY <2>1, <2>2, <2>3, <2>4, <2>5, MovesKeepRetired
<1>5. ASSUME Archive(c) PROVE RetiredInv'
  <2> DEFINE i == call[c].item
  <2>1. /\ i \in Items /\ call[c].op = "reset" /\ call[c].id \in Ids /\ call[c].id # 0
        /\ UNCHANGED <<chain, ids, late>> /\ ~At(c, "delete", "rmItem")
    BY <1>1, <1>5, RegistryAssumption DEF Archive, At, countVars, Ids
  <2>2. CASE dir[i]
    <3>1. /\ Getting(c, "create", i, 0) /\ "create" \in Ops
          /\ dir' = [dir EXCEPT ![i] = FALSE]
          /\ agent' = [agent EXCEPT ![i] = None] /\ tmps' = [tmps EXCEPT ![i] = {}]
          /\ retired' = retired \cup IdsAt(i) \cup {call[c].id}
          /\ crossed' = IF \E d \in Calls \ {c} : call[d].op = "create" /\ call[d].item = i
                        THEN crossed \cup {i} ELSE crossed
      BY <1>5, <2>2 DEF Archive, Ops
    <3>2. retired' \subseteq retired \cup IdsAt(i) \cup ({call[c].id} \ {0})
      BY <2>1, <3>1
    <3>3. /\ crossed \subseteq crossed'
          /\ \A d \in Calls : d # c /\ call[d].op = "create" /\ call[d].item = i =>
                i \in ExcusedItems' \cup Going'
      BY <3>1 DEF ExcusedItems
    <3>4. i = call[c].item
      OBVIOUS
    <3> HIDE DEF i
    <3>5. /\ call'[c].item = i /\ call'[c].id = 0 /\ call'[c].after = Len(chain)
          /\ \A d \in Calls : d # c => call'[d] = call[d]
      BY <1>1, <2>1, <3>1, GettingMoves, GettingAfter
    <3> QED
      BY <2>1, <3>1, <3>2, <3>3, <3>4, <3>5, RetireKeepsRetired
  <2>3. CASE ~dir[i]
    <3>1. Return(c) /\ UNCHANGED <<dir, agent, tmps, retired, ExcusedItems>>
      BY <1>5, <2>3 DEF Archive, fileVars, ExcusedItems
    <3>2. call'[c].op = "none" /\ call'[c].id = 0 /\ \A d \in Calls : d # c => call'[d] = call[d]
      BY <3>1, ReturnFacts
    <3>3. Going \subseteq Going'
      BY <2>1, <3>2, GoingKept
    <3> QED
      BY <2>1, <3>1, <3>2, <3>3, MovesKeepRetired
  <2> QED
    BY <2>2, <2>3
<1>6. ASSUME WriteNew(c) PROVE RetiredInv'
  <2>1. /\ call[c].item \in Items /\ call[c].op = "create" /\ TRUE \in BOOLEAN
        /\ ids' = ids + 1 /\ ids' \in Ids /\ ids' \in Nat
    BY <1>1, <1>6, RegistryAssumption DEF WriteNew, At, Ids
  <2>2. /\ Ask(call[c].item, ids', TRUE) /\ Return(c)
        /\ UNCHANGED <<dir, agent, tmps, retired, crossed, late>>
    BY <1>6 DEF WriteNew, historyVars, fileVars
  <2>3. ids' > ids /\ ids <= ids'
    BY <1>1, <2>1
  <2>4. ids' \notin retired
    <3>1. ids' \in retired => ids' <= ids
      BY DEF RetiredInv, RetiredGiven
    <3> QED
      BY <1>1, <2>1, <3>1
  <2> DEFINE id == ids'
             i == call[c].item
  <2>5. Ask(i, id, TRUE) /\ id \in Ids /\ id > ids /\ id \notin retired /\ i \in Items
    BY <2>1, <2>2, <2>3, <2>4
  <2> HIDE DEF id, i
  <2> QED
    BY <2>1, <2>2, <2>3, <2>5, AskKeepsRetired
<1>7. ASSUME SetStatus(c) PROVE RetiredInv'
  <2> DEFINE i == call[c].item
             id == call[c].id
  <2>1. /\ UNCHANGED <<ids, dir, agent, tmps, retired, crossed>> /\ At(c, "status", "hold")
        /\ Ask(i, id, FALSE) /\ Return(c)
        /\ late' = IF Superseded(i, id) THEN late \cup {i} ELSE late
    BY <1>7 DEF SetStatus, fileVars
  <2>2. /\ i \in Items /\ id \in Ids /\ call[c].op = "status" /\ FALSE \in BOOLEAN
        /\ id \in Has[i]
    <3>1. call[c].op = "status" /\ call[c].pc = "hold"
      BY <2>1 DEF At
    <3>2. i \in Items /\ id \in Ids
      BY <1>1, <3>1
    <3> QED
      BY <3>1, <3>2 DEF Has
  <2>3. late \subseteq late' /\ (i \notin late' => id \notin retired)
    <3> HIDE DEF i, id
    <3> QED
      BY <2>1 DEF Superseded
  <2> HIDE DEF i, id
  <2>4. /\ UNCHANGED <<dir, agent, tmps, retired, raced, crossed>>
        /\ call[c].op # "delete" /\ ids <= ids' /\ ids' \in Nat
        /\ (id > ids \/ id \in Has[i])
    BY <1>1, <2>1, <2>2
  <2> QED
    BY <2>1, <2>2, <2>3, <2>4, AskKeepsRetired
<1> QED
  BY <1>2, <1>3, <1>4, <1>5, <1>6, <1>7

LEMMA MkdirKeepsRetired ==
    ASSUME TypeInv, TypeInv', ItemInv, RetiredInv, Waited, NEW c \in Calls, Mkdir(c)
    PROVE  RetiredInv'
<1> DEFINE i == call[c].item
<1>1. /\ FileTypes /\ HistoryTypes /\ i \in Items /\ "write" \in Pcs /\ 0 \notin Ids
      /\ At(c, "create", "mkdir") /\ Goto(c, "write")
      /\ UNCHANGED <<agent, tmps, chain, retired, ids, late, crossed>>
      /\ dir' = [dir EXCEPT ![i] = TRUE]
      /\ raced' = IF GoesAway(i) THEN raced \cup {i} ELSE raced
  BY TypeParts, HasFacts DEF Mkdir, At, CallTypes, Slots, Pcs, countVars, historyVars
<1>2. /\ call'[c].op = "create" /\ call'[c].pc = "write"
      /\ call'[c].item = i /\ call'[c].id = call[c].id
      /\ \A d \in Calls : d # c => call'[d] = call[d]
  BY <1>1, GotoFacts DEF At
<1>3. call[c].op = "create" /\ call[c].pc = "mkdir" /\ call[c].after = 0 /\ Making(c)
  BY <1>1 DEF At, Waited, Making
<1>4. i = call[c].item
  OBVIOUS
<1> HIDE DEF i
<1>5. /\ ExcusedItems \subseteq ExcusedItems' /\ (i \notin ExcusedItems' => i \notin Going)
      /\ Places' = Places /\ Going \subseteq Going'
  <2>1. ~At(c, "delete", "rmItem")
    BY <1>3 DEF At
  <2>2. Going \subseteq Going'
    BY <1>2, <2>1, GoingKept
  <2> QED
    BY <1>1, <2>2 DEF ExcusedItems, Going, Places
<1>6. OneItem'
  BY <1>1, <1>2, <1>4, HasMoves, OneItemStays DEF RetiredInv
<1>7. RetiredGiven'
  BY <1>1 DEF RetiredInv, RetiredGiven
<1>8. NoneBack'
  <2> SUFFICES ASSUME NEW j \in Items, dir'[j], j \notin ExcusedItems'
               PROVE  /\ agent[j].id \notin retired
                      /\ \A k \in Places : chain[k].item = j => chain[k].rec.id \notin retired
    BY <1>1, <1>5 DEF NoneBack
  <2>1. CASE dir[j]
    BY <1>5, <2>1 DEF RetiredInv, NoneBack
  <2>2. CASE ~dir[j]
    <3>1. j = i /\ i \notin ExcusedItems \cup Going
      BY <1>1, <1>5, <2>2 DEF FileTypes
    <3>2. agent[j].id \notin retired
      BY <1>1, <2>2 DEF ItemInv, InDirectory, None, HistoryTypes
    <3>3. \A k \in Places : chain[k].item = i => chain[k].rec.id \notin retired
      <4>1. NoneComesTo(c)
        BY <1>3, <1>4, <3>1 DEF RetiredInv, NoneComes
      <4>2. \A k \in Places : k > 0
        BY DEF Places
      <4> QED
        BY <1>3, <1>4, <4>1, <4>2 DEF NoneComesTo
    <3> QED
      BY <3>1, <3>2, <3>3
  <2> QED
    BY <2>1, <2>2
<1>9. NoneComes'
  <2> SUFFICES ASSUME NEW d \in Calls, Making(d)', call'[d].item \notin ExcusedItems' \cup Going',
                      NEW k \in Places, k > call'[d].after, chain[k].item = call'[d].item
               PROVE  chain[k].rec.id \notin retired
    BY <1>1, <1>5 DEF NoneComes, NoneComesTo
  <2>1. d # c /\ call'[d] = call[d] /\ Making(d)
    BY <1>2 DEF Making
  <2> QED
    BY <1>5, <2>1 DEF RetiredInv, NoneComes, NoneComesTo
<1> QED
  BY <1>6, <1>7, <1>8, <1>9 DEF RetiredInv

LEMMA ItemsKeepRetired ==
    ASSUME TypeInv, TypeInv', ItemInv, DiskInv, RetiredInv, Waited, NEW c \in Calls,
           \/ \E i \in Items : AskCreate(c, i) \/ AskDelete(c, i)
           \/ Mkdir(c) \/ AskItem(c) \/ MakeItem(c) \/ WriteManifest(c)
           \/ RemoveAgents(c) \/ RemoveItem(c)
    PROVE  RetiredInv'
<1>1. /\ FileTypes /\ CallTypes /\ HistoryTypes /\ 0 \in 0..MaxIds
      /\ (call[c].op # "none" => call[c].item \in Items)
  BY TypeParts, RegistryAssumption DEF CallTypes, Slots
<1>2. ASSUME NEW i \in Items, AskCreate(c, i) PROVE RetiredInv'
  <2>1. /\ Getting(c, "create", i, 0) /\ "create" \in Ops /\ ~At(c, "delete", "rmItem")
        /\ UNCHANGED <<dir, agent, tmps, chain, retired, ids, ExcusedItems>>
    BY <1>2 DEF AskCreate, Ops, At, fileVars, countVars, historyVars, ExcusedItems
  <2>2. /\ call'[c].after = Len(chain) /\ call'[c].id = 0
        /\ \A d \in Calls : d # c => call'[d] = call[d]
    BY <1>1, <2>1, GettingMoves, GettingAfter
  <2>3. Going \subseteq Going'
    BY <2>1, <2>2, GoingKept
  <2> QED
    BY <2>1, <2>2, <2>3, MovesKeepRetired
<1>3. ASSUME UNCHANGED <<dir, agent, tmps, chain, retired, ids, late, raced, crossed>>,
             ~At(c, "delete", "rmItem"), \A d \in Calls : d # c => call'[d] = call[d],
             call'[c].op # "create",
             call'[c].id = 0 \/ (call'[c].item = call[c].item /\ call'[c].id = call[c].id)
      PROVE  RetiredInv'
  <2>1. Going \subseteq Going' /\ UNCHANGED ExcusedItems
    BY <1>3, GoingKept DEF ExcusedItems
  <2> QED
    BY <1>3, <2>1, MovesKeepRetired
<1>4. ASSUME NEW i \in Items, NEW op \in Ops \ {"create"}, NEW pc \in Pcs, Begin(c, op, pc, i),
             call[c].op = "none", UNCHANGED <<fileVars, chain, countVars, historyVars, raced>>
      PROVE  RetiredInv'
  <2>1. UNCHANGED <<dir, agent, tmps, chain, retired, ids, late, raced, crossed>>
    BY <1>4 DEF fileVars, countVars, historyVars
  <2>2. ~At(c, "delete", "rmItem")
    BY <1>4 DEF At
  <2>3. /\ call'[c].op # "create" /\ call'[c].id = 0
        /\ \A d \in Calls : d # c => call'[d] = call[d]
    BY <1>4, BeginMoves
  <2> QED
    BY <1>3, <2>1, <2>2, <2>3
<1>5. CASE \E i \in Items : AskCreate(c, i) \/ AskDelete(c, i)
  BY <1>2, <1>4, <1>5 DEF AskDelete, At, Ops, Pcs
<1>6. CASE AskItem(c)
  BY <1>4, <1>6 DEF AskItem, At, Ops, Pcs
<1>7. CASE Mkdir(c)
  BY <1>7, MkdirKeepsRetired
<1>8. CASE MakeItem(c) \/ WriteManifest(c)
  <2>1. /\ UNCHANGED <<dir, agent, tmps, chain, retired, ids, late, raced, crossed>>
        /\ call[c].op = "newItem" /\ "manifest" \in Pcs
        /\ Goto(c, "manifest") \/ Return(c)
    BY <1>8 DEF MakeItem, WriteManifest, At, Pcs, fileVars, countVars, historyVars
  <2>2. /\ call'[c].op # "create" /\ \A d \in Calls : d # c => call'[d] = call[d]
        /\ call'[c].id = 0 \/ (call'[c].item = call[c].item /\ call'[c].id = call[c].id)
    BY <2>1, GotoFacts, ReturnFacts
  <2>3. ~At(c, "delete", "rmItem")
    BY <2>1 DEF At
  <2> QED
    BY <1>3, <2>1, <2>2, <2>3
<1>9. CASE RemoveAgents(c)
  <2> DEFINE i == call[c].item
  <2>1. /\ At(c, "delete", "rmAgents") /\ Goto(c, "rmItem") /\ "rmItem" \in Pcs
        /\ dir' = [dir EXCEPT ![i] = FALSE] /\ retired' = retired \cup IdsAt(i)
        /\ agent' = [agent EXCEPT ![i] = None] /\ tmps' = [tmps EXCEPT ![i] = {}]
        /\ UNCHANGED <<chain, ids, late, raced, crossed>>
    BY <1>9 DEF RemoveAgents, countVars, Pcs
  <2>2. /\ i \in Items /\ call[c].op = "delete" /\ call[c].pc = "rmAgents"
        /\ call'[c].op = "delete" /\ call'[c].pc = "rmItem" /\ call'[c].item = i
        /\ call'[c].id = call[c].id /\ \A d \in Calls : d # c => call'[d] = call[d]
    BY <1>1, <2>1, GotoFacts DEF At
  <2>3. i \in Going'
    BY <2>2 DEF Going, GoesAway, At
  <2> QED
    BY <2>1, <2>2, <2>3, RetireKeepsRetired
<1>10. CASE RemoveItem(c)
  <2> DEFINE i == call[c].item
  <2>1. /\ UNCHANGED <<dir, agent, tmps, chain, retired, ids, late, crossed>>
        /\ Return(c) /\ call[c].op = "delete" /\ i \in Items
        /\ raced' = IF Creating(i) THEN raced \cup {i} ELSE raced
    BY <1>1, <1>10 DEF RemoveItem, At, fileVars, countVars, historyVars
  <2>2. /\ call'[c].op = "none" /\ call'[c].id = 0 /\ \A d \in Calls : d # c => call'[d] = call[d]
    BY <2>1, ReturnFacts
  <2>3. ExcusedItems \subseteq ExcusedItems'
    BY <2>1 DEF ExcusedItems
  <2>4. ASSUME NEW d \in Calls, Making(d), call[d].item \in Going
        PROVE  call[d].item \in Going' \cup ExcusedItems'
    <3>1. CASE call[d].item = i
      BY <2>1, <2>4, <3>1 DEF Making, Creating, ExcusedItems
    <3>2. CASE call[d].item # i
      BY <2>2, <2>4, <3>2 DEF Going, GoesAway, At
    <3> QED
      BY <3>1, <3>2
  <2> QED
    BY <2>1, <2>2, <2>3, <2>4, MovesKeepRetired
<1> QED
  BY <1>5, <1>6, <1>7, <1>8, <1>9, <1>10

LEMMA CrashKeepsRetired ==
    ASSUME TypeInv, TypeInv', RetiredInv, Crash
    PROVE  RetiredInv'
<1>1. /\ UNCHANGED <<dir, agent, tmps, ids, retired, late, raced, crossed>> /\ chain' = <<>>
      /\ \A c \in Calls : call'[c].op = "none" /\ call'[c].id = 0
  BY DEF Crash, fileVars, countVars, historyVars, IdleCall
<1>2. Places' = {}
  BY <1>1 DEF Places
<1>3. \A i \in Items : Has'[i] \subseteq Has[i]
  <2> SUFFICES ASSUME NEW i \in Items, NEW id \in Has'[i] PROVE id \in Has[i]
    OBVIOUS
  <2>1. /\ id \in Ids
        /\ \/ agent[i].id = id
           \/ \E r \in tmps[i] : r.id = id
           \/ \E c \in Calls : call'[c].id = id
    BY <1>1, <1>2 DEF Has
  <2>2. id # 0
    BY <2>1, HasFacts
  <2> QED
    BY <1>1, <2>1, <2>2 DEF Has
<1>4. OneItem' /\ RetiredGiven'
  BY <1>1, <1>3, OneItemStays DEF RetiredInv, RetiredGiven
<1>5. NoneBack' /\ NoneComes'
  BY <1>1, <1>2 DEF RetiredInv, NoneBack, NoneComes, Making, ExcusedItems
<1> QED
  BY <1>4, <1>5 DEF RetiredInv

LEMMA RetiredStep ==
    TypeInv /\ ItemInv /\ DiskInv /\ RetiredInv /\ Waited /\ [Next]_vars => RetiredInv'
<1> SUFFICES ASSUME TypeInv, ItemInv, DiskInv, RetiredInv, Waited, [Next]_vars PROVE RetiredInv'
  OBVIOUS
<1>0. TypeInv'
  BY TypeStep
<1>1. CASE RegistryStep
  BY <1>0, <1>1, WriteKeepsRetired, CallKeepsRetired DEF RegistryStep
<1>2. CASE ItemStep
  BY <1>0, <1>2, ItemsKeepRetired DEF ItemStep
<1>3. CASE Crash
  BY <1>0, <1>3, CrashKeepsRetired
<1>4. CASE UNCHANGED vars
  <2>1. UNCHANGED <<dir, agent, tmps, chain, call, ids, retired, late, raced, crossed>>
    BY <1>4 DEF vars, registryVars, fileVars, countVars, historyVars
  <2>2. OneItem' /\ RetiredGiven'
    BY <2>1 DEF RetiredInv, OneItem, Has, Places, RetiredGiven
  <2>3. NoneBack' /\ NoneComes'
    BY <2>1 DEF RetiredInv, NoneBack, NoneComes, NoneComesTo, Making, Places, ExcusedItems,
                Going, GoesAway, At
  <2> QED
    BY <2>2, <2>3 DEF RetiredInv
<1> QED
  BY <1>1, <1>2, <1>3, <1>4 DEF Next

(* No agent that was retired or deleted is found in agent.json again, when *)
(* the writes have been done, but for the three cases in which the code    *)
(* lets one come back: however many handlers run, whatever they do, and    *)
(* wherever the program dies.                                              *)
THEOREM RetiredNeverReturns == Spec => []RetiredStaysRetired
<1>1. Init => Waited
  BY DEF Init, RegistryInit, Waited, IdleCall
<1>2. Spec => [](TypeInv /\ ItemInv /\ DiskInv /\ RetiredInv /\ Waited)
  BY <1>1, TypeInit, TypeStep, ItemInit, ItemStepInv, DiskInit, DiskStep, RetiredInit, RetiredStep,
     WaitedStep, PTL DEF Spec
<1>3. TypeInv /\ ItemInv /\ RetiredInv => RetiredStaysRetired
  <2> SUFFICES ASSUME TypeInv, ItemInv, RetiredInv, NEW i \in Items, i \notin ExcusedItems
               PROVE  agent[i].id \notin retired
    BY DEF RetiredStaysRetired, ExcusedItems
  <2>1. CASE dir[i]
    BY <2>1 DEF RetiredInv, NoneBack
  <2>2. CASE ~dir[i]
    <3>1. agent[i].id = 0
      BY <2>2 DEF ItemInv, InDirectory, None
    <3> QED
      BY <3>1, TypeParts, HasFacts DEF HistoryTypes
  <2> QED
    BY <2>1, <2>2, TypeParts DEF FileTypes
<1> QED
  BY <1>2, <1>3, PTL
=============================================================================
