-------------------------------- MODULE TxCodec --------------------------------
(***************************************************************************)
(* BRTransaction.c: how a bitcoin transaction is written, read back, sized  *)
(* and hashed to be signed.  A buffer is a sequence of fields, each with    *)
(* the bytes it takes: reading a field of another width is reading garbage. *)
(***************************************************************************)
EXTENDS Integers, SequencesExt

NoScript == "none"
TX_INPUT_SIZE == 148
NoTx == [inputs |-> <<>>, outputs |-> <<>>, hashed |-> FALSE]

\* The bytes of the scripts used: two that pay to an address, one that does not, two signatures
Scripts      == [p2pkh |-> 25, p2sh |-> 23, data |-> 40, empty |-> 0, sig |-> 107, sig2 |-> 253]
IsAddress(s) == s \in {"p2pkh", "p2sh"}     \* BRAddressFromScriptPubKey

VarIntSize(n) == IF n < 253 THEN 1 ELSE 3

F(width, value) == [width |-> width, value |-> value]
Script(s)       == F(VarIntSize(Scripts[s]) + Scripts[s], s)
Size(buf)       == FoldLeft(LAMBDA n, f : n + f.width, 0, buf)

\* _BRTxInputData: the amount is written only when there is one
TxInputData(outpoint, script, amount, sequence) ==
    <<F(36, outpoint), Script(script)>> \o
    (IF amount # 0 THEN <<F(8, amount)>> ELSE <<>>) \o <<F(4, sequence)>>

\* _BRTransactionOutputData
OutputData(tx) == FlattenSeq([i \in DOMAIN tx.outputs |-> <<F(8, tx.outputs[i].amount), Script(tx.outputs[i].script)>>])

InputsOf(tx, Data(_)) ==
    <<F(4, "version"), F(VarIntSize(Len(tx.inputs)), Len(tx.inputs))>> \o FlattenSeq([i \in DOMAIN tx.inputs |-> Data(i)])
OutputsOf(tx) ==
    <<F(VarIntSize(Len(tx.outputs)), Len(tx.outputs))>> \o OutputData(tx) \o <<F(4, "lockTime")>>

\* BRTransactionSerialize, _BRTransactionData of SIZE_MAX: an unsigned input has its script and amount instead
Serialize(tx) ==
    LET data(i) == LET in == tx.inputs[i] IN
            IF in.signature = NoScript THEN TxInputData(in.outpoint, in.script, in.amount, in.sequence)
            ELSE TxInputData(in.outpoint, in.signature, 0, in.sequence)
    IN InputsOf(tx, data) \o OutputsOf(tx)

\* wrong on purpose: the signatures that are there already are signed too
SignDataOverSignatures(tx, index) ==
    LET data(i) == LET in == tx.inputs[i] IN
            TxInputData(in.outpoint, IF i = index THEN in.script
                                     ELSE IF in.signature = NoScript THEN "empty" ELSE in.signature, 0, in.sequence)
    IN InputsOf(tx, data) \o OutputsOf(tx) \o <<F(4, "SIGHASH_ALL")>>

\* _BRTransactionData of an index, SIGHASH_ALL: the script of that input, none of the others
SignData(tx, index) ==
    LET data(i) == LET in == tx.inputs[i] IN
            TxInputData(in.outpoint, IF i = index THEN in.script ELSE "empty", 0, in.sequence)
    IN InputsOf(tx, data) \o OutputsOf(tx) \o <<F(4, "SIGHASH_ALL")>>

\* _BRTransactionWitnessData, for the fork's hash type: all outpoints, all sequences, this input with its amount
WitnessData(tx, index) ==
    LET in == tx.inputs[index] IN
    <<F(4, "version"), F(32, [i \in DOMAIN tx.inputs |-> tx.inputs[i].outpoint]),
      F(32, [i \in DOMAIN tx.inputs |-> tx.inputs[i].sequence])>>
      \o TxInputData(in.outpoint, in.script, in.amount, in.sequence)
      \o <<F(32, OutputData(tx)), F(4, "lockTime"), F(4, "SIGHASH_ALL|FORKID")>>

-----------------------------------------------------------------------------
(* BRTransactionParse, over r = [buf, ok]: what is left to read, and whether every field had its width *)

Read(r, width) == [r EXCEPT !.buf = Tail(@), !.ok = @ /\ Head(r.buf).width = width]
ReadScript(r)  == [r EXCEPT !.buf = Tail(@), !.ok = @ /\ Head(r.buf).value \in DOMAIN Scripts]
Next1(r)       == Head(r.buf).value

ReadInput(r) ==
    LET script == ReadScript(Read(r, 36))
        name   == Next1(Read(r, 36))
        unsigned == IsAddress(name)
        amount == IF unsigned THEN Read(script, 8) ELSE script
    IN [r EXCEPT !.buf = Read(amount, 4).buf, !.ok = Read(amount, 4).ok,
                 !.inputs = Append(@, [outpoint  |-> Next1(r), sequence |-> Next1(amount),
                                       script    |-> IF unsigned THEN name ELSE NoScript,
                                       amount    |-> IF unsigned THEN Next1(script) ELSE 0,
                                       signature |-> IF unsigned THEN NoScript ELSE name])]

ReadOutput(r) ==
    LET script == Read(r, 8)
    IN [r EXCEPT !.buf = ReadScript(script).buf, !.ok = ReadScript(script).ok,
                 !.outputs = Append(@, [amount |-> Next1(r), script |-> Next1(script)])]

Times(n) == [i \in 1 .. n |-> i]

Parse(buf) ==
    LET start   == [buf |-> buf, ok |-> TRUE, inputs |-> <<>>, outputs |-> <<>>]
        count   == Read(start, 4)
        inputs  == FoldLeft(LAMBDA r, i : IF r.ok THEN ReadInput(r) ELSE r, Read(count, 1), Times(Next1(count)))
        outputs == FoldLeft(LAMBDA r, i : IF r.ok THEN ReadOutput(r) ELSE r, Read(inputs, 1), Times(Next1(inputs)))
    IN IF inputs.ok /\ outputs.ok /\ Next1(count) > 0
       THEN [inputs |-> outputs.inputs, outputs |-> outputs.outputs,
             hashed |-> \A i \in DOMAIN outputs.inputs : outputs.inputs[i].signature # NoScript]
       ELSE NoTx

\* BRTransactionSize
TransactionSize(tx) ==
    8 + VarIntSize(Len(tx.inputs)) + VarIntSize(Len(tx.outputs)) + Size(OutputData(tx))
      + FoldLeft(+, 0, [i \in DOMAIN tx.inputs |->
            IF tx.inputs[i].signature = NoScript THEN TX_INPUT_SIZE
            ELSE 36 + Script(tx.inputs[i].signature).width + 4])

-----------------------------------------------------------------------------
\* BRTxInputSetSignature
Signed(tx, i, signature) == [tx EXCEPT !.inputs[i].signature = signature]

\* What the network keeps of a transaction: not the script and the amount of an input that is signed
Sent(tx) ==
    [inputs  |-> [i \in DOMAIN tx.inputs |->
                     IF tx.inputs[i].signature = NoScript THEN tx.inputs[i]
                     ELSE [tx.inputs[i] EXCEPT !.script = NoScript, !.amount = 0]],
     outputs |-> tx.outputs,
     hashed  |-> \A i \in DOMAIN tx.inputs : tx.inputs[i].signature # NoScript]

\* Reading what was written gives the transaction, signed, unsigned or in part, as long as no unsigned input
\* spends an output of zero; the size of a signed one is what is written; and what an input signs is the same
\* in whatever order the others are signed.
TxRoundTrip(tx) == Parse(Serialize(tx)) = Sent(tx)
TxSize(tx)      == Sent(tx).hashed => TransactionSize(tx) = Size(Serialize(tx))
SignsTheSame(tx) ==
    \A i, j \in DOMAIN tx.inputs : i # j =>
        /\ SignData(Signed(tx, j, "sig"), i) = SignData(tx, i)
        /\ WitnessData(Signed(tx, j, "sig"), i) = WitnessData(tx, i)
================================================================================
