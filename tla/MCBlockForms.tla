---------------------------- MODULE MCBlockForms ----------------------------
(* Small instance of BlockForms: bytes of four bits, two digits of the     *)
(* text each.                                                              *)
EXTENDS BlockForms

-----------------------------------------------------------------------------
(* Blocks as text.                                                         *)

MCAssetIDOf(prog, vmVersion, def) == <<(Len(prog) + 2 * vmVersion + 3 * Len(def)) % Base>>

MakeInput(version, typed, suffix, witness, witnessSuffix) ==
    [version |-> version, typed |-> typed, suffix |-> suffix,
     witness |-> witness, witnessSuffix |-> witnessSuffix]

\* One input of every type, with and without suffixes.
SampleInputs ==
    { MakeInput(1, Typed("issuance", <<<<1, 9>>, MCAssetIDOf(<<5>>, 1, <<>>), 70>>, <<>>), <<>>,
            <<<<>>, 1, <<5>>, <<<<1>>, <<>>>>>>, <<>>),
      MakeInput(1, Typed("spend", <<<<3>>, <<<<4>>, 7>>, 9, 1, <<6, 6>>>>, <<8>>), <<>>, <<<<>>>>, <<4>>),
      MakeInput(1, Typed("coinbase", <<<<15>>>>, <<>>), <<1>>, <<>>, <<>>),
      MakeInput(2, Typed("none", <<>>, <<>>), <<1, 2>>, <<>>, <<3>>) }

SampleOutputs ==
    { [version |-> 1, fields |-> <<<<<<4>>, 63>>, 1, <<9>>>>, suffix |-> <<>>],
      [version |-> 8, fields |-> <<>>, suffix |-> <<7>>] }

WithSize(tx) == [tx EXCEPT !.size = Len(WriteTx(<<>>, tx).rest)]

SampleTxs ==
    { WithSize([version |-> 1, timeRange |-> 9, inputs |-> i, outputs |-> o, size |-> 0]) :
        i \in {<<j>> : j \in SampleInputs}, o \in {<<j>> : j \in SampleOutputs} }
    \cup
    { WithSize([version |-> 1, timeRange |-> 9, inputs |-> i, outputs |-> <<>>, size |-> 0]) :
        i \in {<<j, k>> : j, k \in {m \in SampleInputs : m.typed.type # "coinbase"}} }

\* Heights and timestamps at the edges of a byte and of the range.
SampleHeaders == {<<1, h, <<3>>, t, <<5>>, <<7>>, 8, 65>> : h \in {0, 7, 8, 100}, t \in {64, 101}}

MCBlockData ==
    {[header |-> h, txs |-> <<>>] : h \in SampleHeaders}
    \cup {[header |-> <<1, 8, <<3>>, 64, <<5>>, <<7>>, 8, 65>>, txs |-> s] :
           s \in {<<t>> : t \in SampleTxs} \cup {<<CHOOSE u \in SampleTxs : TRUE, t>> : t \in SampleTxs}}

-----------------------------------------------------------------------------
(* Transactions as entries.                                                *)

MCIsUnspendable(prog) == prog = "fail"

BTM == <<"BTM", 5>>
Gold == <<"gold", 5>>
Spent(value, pos) == NewSpendInput(<<"mux", <<0, <<>>>>>>, value, pos, "true")

MCInputs ==
    {[type |-> "issuance", nonce |-> 1, value |-> Gold], Spent(BTM, 0), Spent(Gold, 1),
     [type |-> "coinbase", arbitrary |-> 1], [type |-> "none"]}

MCOutputs ==
    {[value |-> BTM, program |-> r] : r \in {"true", "fail"}} \cup {[value |-> Gold, program |-> "true"]}
=============================================================================
