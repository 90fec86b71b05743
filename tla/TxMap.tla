------------------------------- MODULE TxMap -------------------------------
(***************************************************************************)
(* Transactions as graphs of entries (src/protocol/bc/types/map.go).       *)
(*                                                                         *)
(* A value moves from the inputs into the mux and from there to the        *)
(* outputs.  An entry has a type, a body that is hashed to its ID, and an  *)
(* ordinal that is not: mapTx relies on this for prevouts.  Hashes are     *)
(* assumed not to collide, so an ID is the type with the body.             *)
(*                                                                         *)
(* A transaction is a record with the sequences of its inputs and outputs. *)
(* An input has its type ("none" when the asset version is not 1) and the  *)
(* fields that are hashed, an output has value and program.  A value is a  *)
(* pair of asset and amount.                                               *)
(***************************************************************************)
EXTENDS Integers, Sequences

CONSTANTS
    Inputs, Outputs,     \* inputs from outside, and outputs, of the instance
    MaxPuts,             \* bound on the inputs, and on the outputs, of a transaction
    MaxTxs,              \* bound on the number of transactions
    BTMAssetID,
    IsUnspendable(_)     \* vmutil.IsUnspendable

VARIABLES txs            \* the transactions made so far

Entry(typ, body, ordinal) == [typ |-> typ, body |-> body, ordinal |-> ordinal]
EntryID(e) == <<e.typ, e.body>>
ValueSource(ref, value, position) == <<ref, value, position>>
NewOutput(source, prog, ordinal) == Entry("output", <<source, prog>>, ordinal)

\* The constructor of an input that spends an output.
NewSpendInput(sourceID, value, sourcePos, prog) ==
    [type |-> "spend", sourceID |-> sourceID, value |-> value,
     sourcePosition |-> sourcePos, program |-> prog]

-----------------------------------------------------------------------------
(* mapTx.                                                                  *)

\* The entry of the output that an input spends.
Prevout(in) ==
    NewOutput(ValueSource(in.sourceID, in.value, in.sourcePosition), in.program, 0)

InputEntry(in, i) ==
    CASE in.type = "issuance" -> Entry("issuance", <<in.nonce, in.value>>, i)
      [] in.type = "spend"    -> Entry("spend", <<EntryID(Prevout(in))>>, i)
      [] in.type = "coinbase" -> Entry("coinbase", <<in.arbitrary>>, 0)

\* The inputs that set a source of the mux; the source of an input of another
\* asset version stays nil, of which writeForHash writes nothing.
Sourced(tx) == {i \in DOMAIN tx.inputs : tx.inputs[i].type # "none"}

\* A coinbase has the value of the first output.
muxSource(tx, i) ==
    LET in == tx.inputs[i]
    IN  ValueSource(EntryID(InputEntry(in, i - 1)),
                    IF in.type = "coinbase" THEN tx.outputs[1].value ELSE in.value, 0)

muxSources(tx) == [i \in DOMAIN tx.inputs |-> IF i \in Sourced(tx) THEN muxSource(tx, i) ELSE <<>>]

\* What is hashed: the number of sources, and those that are not nil.
mux(tx) ==
    Entry("mux", <<Len(tx.inputs), SelectSeq(muxSources(tx), LAMBDA src : src # <<>>)>>, 0)

\* Mutant of Result: the position of the output is left out.
ResultUnplaced(tx, i) ==
    LET src == ValueSource(EntryID(mux(tx)), tx.outputs[i].value, 0) IN
    IF IsUnspendable(tx.outputs[i].program)
    THEN Entry("retirement", <<src>>, i - 1)
    ELSE NewOutput(src, tx.outputs[i].program, i - 1)

\* The entry of an output.
Result(tx, i) ==
    LET src == ValueSource(EntryID(mux(tx)), tx.outputs[i].value, i - 1) IN
    IF IsUnspendable(tx.outputs[i].program)
    THEN Entry("retirement", <<src>>, i - 1)
    ELSE NewOutput(src, tx.outputs[i].program, i - 1)

TxHeader(tx) ==
    Entry("txheader", <<tx.version, tx.size, tx.timeRange,
                        [i \in DOMAIN tx.outputs |-> EntryID(Result(tx, i))]>>, 0)

\* The calls of addEntry, in their order.
AddedFor(in, i) ==
    CASE in.type = "none"  -> <<>>
      [] in.type = "spend" -> <<Prevout(in), InputEntry(in, i)>>
      [] OTHER             -> <<InputEntry(in, i)>>

Added(tx) ==
    LET loop[i \in 0 .. Len(tx.inputs)] ==
            IF i = 0 THEN <<>> ELSE loop[i - 1] \o AddedFor(tx.inputs[i], i - 1)
    IN  loop[Len(tx.inputs)] \o <<mux(tx)>> \o [i \in DOMAIN tx.outputs |-> Result(tx, i)]
            \o <<TxHeader(tx)>>

\* entryMap: an entry replaces an earlier one with its ID.
EntryMap(tx) ==
    LET s == Added(tx) IN
    {s[i] : i \in {j \in DOMAIN s : \A k \in j + 1 .. Len(s) : EntryID(s[k]) # EntryID(s[j])}}

-----------------------------------------------------------------------------
(* MapTx.                                                                  *)

\* The IDs of which the loop over the map leaves one in InputIDs[i].
InputIDs(tx, i) ==
    {EntryID(e) : e \in {o \in EntryMap(tx) : /\ o.typ \in {"issuance", "spend", "coinbase"}
                                              /\ o.ordinal = i - 1}}

Spends(tx) == {o \in EntryMap(tx) : o.typ = "spend"}

SpentOutputIDs(tx) == {e.body[1] : e \in Spends(tx)}

\* The value of a spend is that of the entry with the ID of the spent output.
GasInputIDs(tx) ==
    {EntryID(e) : e \in {d \in Spends(tx) :
        \E o \in EntryMap(tx) : EntryID(o) = d.body[1] /\ o.body[1][2][1] = BTMAssetID}}

-----------------------------------------------------------------------------
(* Transactions are made one after the other, and may spend the outputs of *)
(* earlier ones.                                                           *)

Made == {txs[k] : k \in DOMAIN txs}

\* The input that spends the i-th output of a transaction.
SpendInputOf(tx, i) ==
    NewSpendInput(EntryID(mux(tx)), tx.outputs[i].value, i - 1, tx.outputs[i].program)

Spendable(tx) == {i \in DOMAIN tx.outputs : ~IsUnspendable(tx.outputs[i].program)}

Choices(S) == UNION {[1 .. n -> S] : n \in 1 .. MaxPuts}

\* With a coinbase mapTx reads the value of the first source, which must be set.
FirstSourced(ins) == ins[1].type = "none" => \A i \in DOMAIN ins : ins[i].type # "coinbase"

MapInit == txs = <<>>

\* NewTx of other data.
NewTx ==
    /\ Len(txs) < MaxTxs
    /\ \E ins \in Choices(Inputs \cup UNION {{SpendInputOf(t, i) : i \in Spendable(t)} : t \in Made}),
          outs \in Choices(Outputs) :
            /\ FirstSourced(ins)
            /\ txs' = Append(txs, [version |-> 1, size |-> Len(ins), timeRange |-> 0,
                                   inputs |-> ins, outputs |-> outs])

-----------------------------------------------------------------------------
(* Properties.                                                             *)

\* No two inputs are alike, all have asset version 1, and a coinbase is first.
Regular(tx) ==
    \A i \in DOMAIN tx.inputs :
        /\ tx.inputs[i].type # "none"
        /\ tx.inputs[i].type = "coinbase" => i = 1
        /\ \A j \in DOMAIN tx.inputs : tx.inputs[i] = tx.inputs[j] => i = j

SpendsOf(tx) == {i \in DOMAIN tx.inputs : tx.inputs[i].type = "spend"}

\* For a regular transaction InputIDs is in "1:1 correspondence with
\* TxData.Inputs", although MapTx collects it from an unordered map that also
\* holds prevouts, outputs and the mux.  SpentOutputIDs are the prevouts, and
\* GasInputIDs the inputs that spend BTM.
InputsMapped ==
    \A tx \in {t \in Made : Regular(t)} :
        LET id(i) == EntryID(InputEntry(tx.inputs[i], i - 1)) IN
        /\ \A i \in DOMAIN tx.inputs : InputIDs(tx, i) = {id(i)}
        /\ SpentOutputIDs(tx) = {EntryID(Prevout(tx.inputs[i])) : i \in SpendsOf(tx)}
        /\ GasInputIDs(tx) = {id(i) : i \in {j \in SpendsOf(tx) :
                                            tx.inputs[j].value[1] = BTMAssetID}}

\* An input that spends an output computes the ID under which mapTx has entered
\* that output in the transaction that made it, and no other output has this
\* ID: outputs with equal value and program stay apart, in one transaction and
\* across transactions whose inputs differ, also when one spends the other.
SpendFindsOutput ==
    \A tx \in Made : \A i \in Spendable(tx) :
        LET id == EntryID(Prevout(SpendInputOf(tx, i)))
        IN  /\ id = EntryID(Result(tx, i))
            /\ \A t \in Made : \A j \in DOMAIN t.outputs :
                    id = EntryID(Result(t, j)) => j = i /\ mux(t) = mux(tx)

\* MapTx links inputs, prevouts and outputs by their IDs alone: every input of a
\* regular transaction is found in its place, and every spend finds the one
\* output it spends.
EntriesLinked == InputsMapped /\ SpendFindsOutput
=============================================================================
