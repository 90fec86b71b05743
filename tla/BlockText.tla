----------------------------- MODULE BlockText -----------------------------
(***************************************************************************)
(* Blocks as text: what BlockResponseMessage and MineBlockMessage carry    *)
(* (src/protocol/bc/types: block.go, block_header.go, transaction.go,      *)
(* txinput.go, txoutput.go, spend_commitment.go, output_commitment.go).    *)
(*                                                                         *)
(* The readers are translated from the source.  Of the writers only that   *)
(* of Block is in the repository; those of the header, of inputs and of    *)
(* outputs are external and write what the readers expect.                 *)
(***************************************************************************)
EXTENDS Encoding

CONSTANTS
    HashLen,              \* 32 in the code
    Digit,                \* 16: two digits of the text stand for a byte
    AssetIDOf(_, _, _),   \* bc.ComputeAssetID: program, VM version, definition
    BlockData             \* the blocks of the instance, some of which cannot be written

VARIABLES
    block,    \* the block that a node sends, <<>> for none
    raw,      \* RawBlock of its message, <<>> before it is made
    damaged,  \* history: raw is not what was sent
    got       \* what GetMineBlock returned, <<>> before it is called

textVars == <<block, raw, damaged, got>>

ASSUME DigitAssumption == Digit \in Nat /\ Digit * Digit = 2 * Base

SerBlockHeader == 1
SerBlockFull == 3
serRequired == 7

IssuanceInputType == 0
SpendInputType == 1
CoinbaseInputType == 2

-----------------------------------------------------------------------------
(* Runs of fields: numbers, hashes, asset amounts, strings and lists.      *)

ReadHash(buf) == ReadFull(buf, HashLen)

ReadAssetAmount(buf) ==
    Then(ReadHash(buf), LAMBDA id, s : Then(ReadVarint63(s), LAMBDA amount, t : Ok(<<id, amount>>, t)))

WriteAssetAmount(w, a) == Then(Write(w, a[1]), LAMBDA n, v : WriteVarint63(v, a[2]))

ReadField(kind, buf) ==
    CASE kind = "int"  -> ReadVarint63(buf)
      [] kind = "hash" -> ReadHash(buf)
      [] kind = "amount" -> ReadAssetAmount(buf)
      [] kind = "str"  -> ReadVarstr31(buf)
      [] kind = "list" -> ReadVarstrList(buf)

ReadFields(kinds, buf) ==
    LET loop[i \in 0 .. Len(kinds)] ==
            IF i = 0 THEN Ok(<<>>, buf)
            ELSE Then(loop[i - 1], LAMBDA vs, s :
                      Then(ReadField(kinds[i], s), LAMBDA v, t : Ok(Append(vs, v), t)))
    IN  loop[Len(kinds)]

WriteField(w, kind, v) ==
    CASE kind = "int"  -> WriteVarint63(w, v)
      [] kind = "hash" -> Write(w, v)
      [] kind = "amount" -> WriteAssetAmount(w, v)
      [] kind = "str"  -> WriteVarstr31(w, v)
      [] kind = "list" -> WriteVarstrList(w, v)

WriteFields(w, kinds, vals) ==
    LET loop[i \in 0 .. Len(kinds)] ==
            IF i = 0 THEN Ok(0, w)
            ELSE Then(loop[i - 1], LAMBDA n, s : WriteField(s, kinds[i], vals[i]))
    IN  loop[Len(kinds)]

HeaderStart == <<"int", "int", "hash", "int">>      \* Version .. Timestamp
Commitment == <<"hash", "hash">>                    \* BlockCommitment
HeaderEnd == <<"int", "int">>                       \* Nonce, Bits
Issuance == <<"str", "hash", "int">>                \* Nonce, asset ID, Amount
Spend == <<"hash", "amount", "int", "int", "str">>  \* SourceID, AssetAmount,
                                  \* SourcePosition, VMVersion, ControlProgram
Output == <<"amount", "int", "str">>       \* AssetAmount, VMVersion, ControlProgram
Witness == <<"str", "int", "str", "list">> \* AssetDefinition, VMVersion,
                                           \* IssuanceProgram, Arguments

-----------------------------------------------------------------------------
(* Inputs and outputs.  An input is a record with the fields of its        *)
(* commitment, those of its witness, and the suffix that each of the       *)
(* extensible strings has left.                                            *)

\* SpendCommitment.readFrom, which the caller gives asset version 1.
ReadSpendCommitment(buf) ==
    ReadExtensibleString([str \in Reader |->
        Then(ReadFields(Spend, str), LAMBDA f, s : IF f[4] # 1 THEN Err ELSE Ok(f, s))], buf)

Typed(type, fields, inner) == [type |-> type, fields |-> fields, inner |-> inner]

ReadInputCommitment(version, str) ==
    IF version # 1 THEN Ok(Typed("none", <<>>, <<>>), str)
    ELSE Then(ReadFull(str, 1), LAMBDA icType, s :
         CASE icType[1] = IssuanceInputType ->
                Then(ReadFields(Issuance, s), LAMBDA f, t : Ok(Typed("issuance", f, <<>>), t))
           [] icType[1] = SpendInputType ->
                Then(ReadSpendCommitment(s), LAMBDA c, t : Ok(Typed("spend", c.in, c.suffix), t))
           [] icType[1] = CoinbaseInputType ->
                Then(ReadVarstr31(s), LAMBDA a, t : Ok(Typed("coinbase", <<a>>, <<>>), t))
           [] OTHER -> Err)

\* The asset ID of an issuance must be that of its definition.
ReadInputWitness(typed, str) ==
    CASE typed.type = "issuance" ->
           Then(ReadFields(Witness, str), LAMBDA f, s :
                IF AssetIDOf(f[3], f[2], f[1]) # typed.fields[2] THEN Err ELSE Ok(f, s))
      [] typed.type = "spend" -> ReadFields(<<"list">>, str)
      [] OTHER -> Ok(<<>>, str)

ReadInput(buf) ==
    Then(ReadVarint63(buf), LAMBDA version, s :
    Then(ReadExtensibleString([str \in Reader |-> ReadInputCommitment(version, str)], s), LAMBDA c, t :
    Then(ReadExtensibleString([str \in Reader |-> ReadInputWitness(c.in, str)], t), LAMBDA wit, u :
         Ok([version |-> version, typed |-> c.in, suffix |-> c.suffix,
             witness |-> wit.in, witnessSuffix |-> wit.suffix], u))))

\* OutputCommitment.readFrom
ReadOutputCommitment(version, buf) ==
    ReadExtensibleString([str \in Reader |->
        IF version # 1 THEN Ok(<<>>, str)
        ELSE Then(ReadFields(Output, str), LAMBDA f, s : IF f[2] # 1 THEN Err ELSE Ok(f, s))],
        buf)

\* The witness of an output is read and ignored.
ReadOutput(buf) ==
    Then(ReadVarint63(buf), LAMBDA version, s :
    Then(ReadOutputCommitment(version, s), LAMBDA c, t :
    Then(ReadVarstr31(t), LAMBDA wit, u :
         Ok([version |-> version, fields |-> c.in, suffix |-> c.suffix], u))))

-----------------------------------------------------------------------------
(* Transactions and blocks.                                                *)

\* TxData.readFrom: SerializedSize is what was taken from the reader.
ReadTx(buf) ==
    Then(ReadFull(buf, 1), LAMBDA flags, s :
    IF flags[1] # serRequired THEN Err ELSE
    Then(ReadFields(<<"int", "int">>, s), LAMBDA f, t :
    Then(ReadVarint31(t), LAMBDA n, u :
    Then(ReadMany([r \in Reader |-> ReadInput(r)], n, u), LAMBDA ins, x :
    Then(ReadVarint31(x), LAMBDA k, y :
    Then(ReadMany([r \in Reader |-> ReadOutput(r)], k, y), LAMBDA outs, z :
         Ok([version |-> f[1], timeRange |-> f[2], inputs |-> ins, outputs |-> outs,
             size |-> Len(buf) - Len(z)], z)))))))

\* BlockHeader.readFrom.  An empty reader leaves the flags 0.  The suffix of
\* the commitment is dropped.
ReadHeader(buf) ==
    LET flags == IF buf = <<>> THEN 0 ELSE Head(buf) IN
    IF flags \notin {SerBlockHeader, SerBlockFull} THEN Err
    ELSE Then(ReadFields(HeaderStart, Tail(buf)), LAMBDA h, s :
         Then(ReadExtensibleString([str \in Reader |-> ReadFields(Commitment, str)], s), LAMBDA c, t :
         Then(ReadFields(HeaderEnd, t), LAMBDA e, u :
              Ok([flags |-> flags, fields |-> h \o c.in \o e], u))))

\* Block.readFrom.  NewTx also maps every transaction, see TxMap; there a
\* coinbase without an output has no value, and the instance has none.
ReadBlock(buf) ==
    Then(ReadHeader(buf), LAMBDA h, s :
    IF h.flags = SerBlockHeader THEN Ok([header |-> h.fields, txs |-> <<>>], s) ELSE
    Then(ReadVarint31(s), LAMBDA n, t :
    Then(ReadMany([r \in Reader |-> ReadTx(r)], n, t), LAMBDA txs, u : Ok([header |-> h.fields, txs |-> txs], u))))

\* hex.Decode and hex.Encode: the text is a sequence of digits.
HexDecode(text) ==
    IF Len(text) % 2 # 0 \/ \E i \in 1 .. Len(text) : text[i] >= Digit THEN Err
    ELSE Ok([i \in 1 .. Len(text) \div 2 |-> Digit * text[2 * i - 1] + text[2 * i]], <<>>)

HexEncode(bytes) ==
    [i \in 1 .. 2 * Len(bytes) |-> IF i % 2 = 1 THEN bytes[(i + 1) \div 2] \div Digit
                                                ELSE bytes[i \div 2] % Digit]

\* Mutant of UnmarshalText: what follows the block is ignored.
UnmarshalTextPrefix(text) == Then(HexDecode(text), LAMBDA bytes, s : ReadBlock(bytes))

\* Block.UnmarshalText refuses trailing garbage.
UnmarshalText(text) ==
    Then(HexDecode(text), LAMBDA bytes, s :
    Then(ReadBlock(bytes), LAMBDA b, trailing :
         IF trailing # <<>> THEN Err ELSE Ok(b, <<>>)))

-----------------------------------------------------------------------------
(* The writers.                                                            *)

WriteTyped(w, typed) ==
    CASE typed.type = "issuance" ->
           Then(Write(w, <<IssuanceInputType>>), LAMBDA n, v : WriteFields(v, Issuance, typed.fields))
      [] typed.type = "spend" ->
           Then(Write(w, <<SpendInputType>>), LAMBDA n, v :
                WriteExtensibleString(v, typed.inner, WriteFields(<<>>, Spend, typed.fields)))
      [] typed.type = "coinbase" ->
           Then(Write(w, <<CoinbaseInputType>>), LAMBDA n, v : WriteFields(v, <<"str">>, typed.fields))
      [] OTHER -> Ok(0, w)

WitnessKinds(type) ==
    CASE type = "issuance" -> Witness [] type = "spend" -> <<"list">> [] OTHER -> <<>>

WriteInput(w, in) ==
    Then(WriteVarint63(w, in.version), LAMBDA n, v :
    Then(WriteExtensibleString(v, in.suffix, WriteTyped(<<>>, in.typed)), LAMBDA k, y :
    WriteExtensibleString(y, in.witnessSuffix,
        WriteFields(<<>>, WitnessKinds(in.typed.type), in.witness))))

WriteOutput(w, out) ==
    Then(WriteVarint63(w, out.version), LAMBDA n, v :
    Then(WriteExtensibleString(v, out.suffix,
             WriteFields(<<>>, IF out.version = 1 THEN Output ELSE <<>>, out.fields)),
         LAMBDA k, y : WriteVarstr31(y, <<>>)))

WriteTx(w, tx) ==
    Then(WriteFields(w \o <<serRequired>>, <<"int", "int">>, <<tx.version, tx.timeRange>>), LAMBDA n, v :
    Then(WriteVarint31(v, Len(tx.inputs)), LAMBDA k, x :
    Then(WriteMany(x, [i \in DOMAIN tx.inputs |-> WriteInput(<<>>, tx.inputs[i])]), LAMBDA l, y :
    Then(WriteVarint31(y, Len(tx.outputs)), LAMBDA m, z :
    WriteMany(z, [i \in DOMAIN tx.outputs |-> WriteOutput(<<>>, tx.outputs[i])])))))

WriteHeader(w, h, flags) ==
    Then(WriteFields(w \o <<flags>>, HeaderStart, SubSeq(h, 1, 4)), LAMBDA n, v :
    Then(WriteExtensibleString(v, <<>>, WriteFields(<<>>, Commitment, SubSeq(h, 5, 6))),
         LAMBDA k, y : WriteFields(y, HeaderEnd, SubSeq(h, 7, 8))))

\* Block.writeTo
WriteBlock(b, flags) ==
    Then(WriteHeader(<<>>, b.header, flags), LAMBDA n, v :
    IF flags = SerBlockHeader THEN Ok(0, v) ELSE
    Then(WriteVarint31(v, Len(b.txs)), LAMBDA k, x : WriteMany(x, [i \in DOMAIN b.txs |-> WriteTx(<<>>, b.txs[i])])))

MarshalText(b) == Then(WriteBlock(b, SerBlockFull), LAMBDA n, bytes : Ok(HexEncode(bytes), <<>>))

-----------------------------------------------------------------------------
(* A block travels in a MineBlockMessage (src/netsync/message.go).         *)

TextInit == block \in BlockData /\ raw = <<>> /\ damaged = FALSE /\ got = <<>>

\* The caller drops a block that cannot be written.
NewMinedBlockMessage ==
    /\ block # <<>> /\ raw = <<>>
    /\ LET text == MarshalText(block)
       IN  IF text.ok THEN raw' = text.val /\ UNCHANGED block ELSE block' = <<>> /\ UNCHANGED raw
    /\ UNCHANGED <<damaged, got>>

\* The text ends early, or something follows it.
Damage ==
    /\ raw # <<>> /\ ~damaged /\ got = <<>>
    /\ \/ \E n \in 1 .. Len(raw) - 1 : raw' = SubSeq(raw, 1, n)
       \/ \E d, e \in 0 .. Digit - 1 : raw' = raw \o <<d, e>>
    /\ damaged' = TRUE
    /\ UNCHANGED <<block, got>>

GetMineBlock ==
    /\ raw # <<>> /\ got = <<>>
    /\ got' = <<UnmarshalText(raw)>>
    /\ UNCHANGED <<block, raw, damaged>>

TextNext == NewMinedBlockMessage \/ Damage \/ GetMineBlock

-----------------------------------------------------------------------------
(* Properties.                                                             *)

\* A block that MarshalText could write is what GetMineBlock returns, with the
\* suffixes that extensible strings keep for later versions and with the
\* SerializedSize of its transactions; text that is cut anywhere, or that goes
\* on behind the block, is refused.
BlockTextExact == got # <<>> => got[1] = IF damaged THEN Err ELSE Ok(block, <<>>)
=============================================================================
