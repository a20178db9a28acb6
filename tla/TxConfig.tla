------------------------------ MODULE TxConfig ------------------------------
(***************************************************************************)
(* What a page that sends shows and computes: the amount, the gas and the  *)
(* fee (AmountConfig, SendGasConfig, FeeConfig), and the GasSimulator that *)
(* asks a node how much gas the transaction uses.  The four read each      *)
(* other: the amount, if it is the maximum, leaves the fee; the fee is for *)
(* the gas; the gas is that of the last simulation; the transaction that   *)
(* is simulated is of the amount.                                          *)
(*                                                                         *)
(* MobX runs the reactions of GasSimulator before the call that changed    *)
(* something returns, so an input and what follows from it (React) is one  *)
(* step.  The answers of the node and of the key-value store come later.   *)
(* The node answers differently for the same transaction, within the two   *)
(* hundredths that GasSimulator takes for no difference.                   *)
(*                                                                         *)
(* Transfers over IBC and the bridges have the maximum and one key for all *)
(* currencies, the send page a key for each; here is all of it at once.    *)
(*                                                                         *)
(* Amounts, gas and fees are whole numbers: the decimals of a currency are *)
(* those of its smallest unit.                                             *)
(***************************************************************************)
EXTENDS Naturals, Sequences, SequencesExt, FiniteSets

CONSTANTS
    Denoms, FeeDenom,       \* currencies that can be sent; the one of the fees
    Keys, KeyOf,            \* GasSimulator's key for each currency
    Uses,                   \* gas that the node may answer, by key and whether a fee is paid
    DefaultGas,             \* msgOpts.send of the account, by currency
    FeeTypes, Price,        \* price of ten units of gas
    Adjustment,             \* in tenths
    Balances,               \* for each currency, what the user may have
    Amounts, ManualGas, ManualFees,    \* what users type
    Nothing,
    Ordered,    \* simulations under one key are answered in their order
    MaxInputs   \* how often the user, or a new balance, changes something

Used(k) == UNION {Uses[k][paid] : paid \in BOOLEAN}

(* Abs(r - g) / r > 0.02                                                   *)
Differs(r, g) == 50 * g > 51 * r \/ 50 * g < 49 * r

ASSUME ConfigAssumption ==
    /\ FeeDenom \in Denoms /\ KeyOf \in [Denoms -> Keys]
    /\ Uses \in [Keys -> [BOOLEAN -> SUBSET (Nat \ {0})]]
    /\ \A k \in Keys, paid \in BOOLEAN : \A g, h \in Uses[k][paid] : ~Differs(g, h)
    /\ DefaultGas \in [Denoms -> Nat] /\ Price \in [FeeTypes -> Nat]
    /\ Adjustment \in Nat /\ Balances \in [Denoms -> SUBSET Nat] /\ Amounts \subseteq Nat
    /\ ManualGas \subseteq Nat /\ ManualFees \subseteq Nat
    /\ Nothing \notin Nat /\ Nothing \notin FeeTypes
    /\ Nothing \notin [denom : Denoms, amount : Nat]
    /\ Ordered \in BOOLEAN /\ MaxInputs \in Nat

VARIABLES
    form,       \* what was typed and chosen, and the gas
    balance,    \* the balances that the queries know
    states,     \* GasSimulatorState of each key
    flights,    \* simulations that are not answered, the oldest first
    isSimulating,
    reads,      \* reads of the key-value store that are not answered
    stored,     \* the key-value store
    failed,     \* history: whether the last answered simulation of a key failed
    inputs

vars == <<form, balance, states, flights, isSimulating, reads, stored, failed, inputs>>

-----------------------------------------------------------------------------
(* The configs.  They are computed from a page p, a record of form,        *)
(* balance, states and flights.                                            *)
Page == [form |-> form, balance |-> balance, states |-> states, flights |-> flights]

Gas(f) == IF f.gas = Nothing THEN DefaultGas[f.denom] ELSE f.gas

RoundUp(n) == (n + 9) \div 10

(* Nothing where there is no fee, which is not a fee of zero.              *)
Fee(f) == IF f.manualFee # Nothing THEN f.manualFee
          ELSE IF f.feeType # Nothing THEN RoundUp(Price[f.feeType] * Gas(f)) ELSE Nothing

FeeIn(f, denom) == IF denom # FeeDenom \/ Fee(f) = Nothing THEN 0 ELSE Fee(f)

WholeBalance(p) == IF p.form.isMax THEN p.balance[p.form.denom] ELSE p.form.amount

(* CoinPretty.sub() does nothing to another currency.                      *)
Amount(p) ==
    LET f == p.form
        has == p.balance[f.denom]
        fee == FeeIn(f, f.denom)
    IN  IF ~f.isMax THEN f.amount ELSE IF has > fee THEN has - fee ELSE 0

AmountError(p) == Amount(p) \in {Nothing, 0} \/ Amount(p) > p.balance[p.form.denom]

(* The fee config's own check, with additionAmountToNeedFee.               *)
FeeError(p) ==
    LET f == p.form
        amount == IF f.denom = FeeDenom /\ Amount(p) # Nothing THEN Amount(p) ELSE 0
    IN  Gas(f) = 0 \/ (Fee(f) # Nothing /\ Fee(f) + amount > p.balance[FeeDenom])

-----------------------------------------------------------------------------
(* The reactions of GasSimulator.  Of the fee that a simulation is given   *)
(* the kind is kept: the node looks at whether there is one.               *)
FeeKind(f) == CASE Fee(f) = Nothing -> "none" [] Fee(f) = 0 -> "zero" [] OTHER -> "paid"
TxOf(p) == [denom |-> p.form.denom, amount |-> Amount(p)]

Estimated(state) == IF state.recent # Nothing THEN state.recent ELSE state.initial
Adjusted(gas) == (gas * Adjustment) \div 10

ObservedCurrency(p) == <<p.form.enabled, p.form.key, p.form.denom, AmountError(p)>>
Observed(p) == <<p.form.enabled, p.form.key, p.form.denom, Amount(p), AmountError(p)>>

StdFeeKept(p) == p.states[p.form.key].stdFee

(* The fee is taken over when it becomes zero, ceases to be, or changes    *)
(* its denom.                                                              *)
StdFee(p) == IF p.form.enabled THEN FeeKind(p.form) ELSE p.states[p.form.key].stdFee

(* A transaction is made anew when something changes that simulateGasFn    *)
(* reads; a simulation begins when the transaction, the fee or the key     *)
(* changes.                                                                *)
Simulate(was, p) ==
    LET k == p.form.key
        fresh == p.form.enabled /\ ~AmountError(p) /\ Observed(was) # Observed(p)
        tx == IF fresh THEN TxOf(p) ELSE p.states[k].tx
        fee == StdFee(p)
        due == tx # Nothing /\ (fresh \/ fee # p.states[k].stdFee \/ was.form.key # k)
    IN  [p EXCEPT !.states[k].tx = tx, !.states[k].stdFee = fee,
                  !.flights = IF due THEN Append(@, [key |-> k, tx |-> tx, fee |-> fee]) ELSE @]

SetGas(p) ==
    LET gas == Estimated(p.states[p.form.key])
    IN  IF p.form.enabled /\ gas # Nothing
        THEN [p EXCEPT !.form.gas = Adjusted(gas)] ELSE p

(* The page after the reactions.  The gas that a reaction sets changes the *)
(* fee, and with it the amount.  A set of one page.                        *)
React(was, p) == {Simulate(one, SetGas(one)) : one \in {Simulate(was, p)}}

(* The saved estimate is read when the simulator is enabled or its key     *)
(* changes.                                                                *)
ReadsAfter(f) ==
    IF f.enabled /\ (~form.enabled \/ form.key # f.key)
    THEN reads \cup {[key |-> f.key, saved |-> stored[f.key]]} ELSE reads

Becomes(p) ==
    /\ form' = p.form /\ balance' = p.balance /\ states' = p.states /\ flights' = p.flights
    /\ isSimulating' = (isSimulating \/ Len(p.flights) > Len(flights))
    /\ reads' = ReadsAfter(p.form)
    /\ UNCHANGED <<stored, failed>>

-----------------------------------------------------------------------------
(* The page is there, with the simulator enabled.                          *)
Init ==
    /\ form \in {[denom |-> d, amount |-> Nothing, isMax |-> FALSE, feeType |-> Nothing,
                  manualFee |-> Nothing, gas |-> Nothing, enabled |-> TRUE,
                  key |-> KeyOf[d]] : d \in Denoms}
    /\ balance \in {b \in [Denoms -> UNION {Balances[d] : d \in Denoms}] :
                         \A d \in Denoms : b[d] \in Balances[d]}
    /\ states = [k \in Keys |-> [initial |-> Nothing, recent |-> Nothing,
                                 tx |-> Nothing,
                                 stdFee |-> IF k = form.key THEN "none" ELSE "unset"]]
    /\ flights = <<>> /\ isSimulating = FALSE
    /\ stored \in {s \in [Keys -> {Nothing} \cup UNION {Used(k) : k \in Keys}] :
                       \A k \in Keys : s[k] \in {Nothing} \cup Used(k)}
    /\ reads = {[key |-> form.key, saved |-> stored[form.key]]}
    /\ failed = [k \in Keys |-> FALSE]
    /\ inputs = 0

Typed(f) ==
    /\ inputs < MaxInputs /\ inputs' = inputs + 1
    /\ f # form
    /\ \E p \in React(Page, [Page EXCEPT !.form = f]) : Becomes(p)

SetAmount(a) == Typed([form EXCEPT !.amount = a, !.isMax = FALSE])
ToggleIsMax == Typed([form EXCEPT !.isMax = ~@])
SetFeeType(t) == Typed([form EXCEPT !.feeType = t, !.manualFee = Nothing])
ToggleAuto == Typed([form EXCEPT !.enabled = ~@])

(* The form for the gas and the fee turns the simulator off first.         *)
TypeGasAndFee(gas, fee) ==
    /\ inputs < MaxInputs /\ inputs' = inputs + 1
    /\ LET off == [Page EXCEPT !.form.enabled = FALSE]
           typed == [off EXCEPT !.form.gas = gas, !.form.manualFee = fee, !.form.feeType = Nothing]
       IN  \E p \in React(off, typed) : Becomes(p)

KeepAmount(f, d) == [f EXCEPT !.denom = d]

(* Another currency has no amount yet.                                     *)
SetSendCurrency(f, d) ==
    IF f.denom = d THEN f ELSE [f EXCEPT !.denom = d, !.amount = Nothing, !.isMax = FALSE]

(* The page is rendered again: it sets the key, and enables the simulator. *)
SelectCurrency(d) ==
    /\ inputs < MaxInputs /\ inputs' = inputs + 1
    /\ d # form.denom
    /\ \E chosen \in React(Page, [Page EXCEPT !.form = SetSendCurrency(form, d)]) :
       \E rendered \in React(chosen, [chosen EXCEPT !.form.key = KeyOf[d]]) :
       \E p \in React(rendered, [rendered EXCEPT !.form.enabled = TRUE]) : Becomes(p)

BalanceArrives(d, b) ==
    /\ inputs < MaxInputs /\ inputs' = inputs + 1
    /\ b # balance[d]
    /\ \E p \in React(Page, [Page EXCEPT !.balance[d] = b]) : Becomes(p)

-----------------------------------------------------------------------------
(* Answers.                                                                *)
LoadSaved(r) ==
    /\ r \in reads
    /\ \E p \in React(Page, IF r.saved = Nothing THEN Page
                              ELSE [Page EXCEPT !.states[r.key].initial = r.saved]) :
           /\ form' = p.form /\ states' = p.states /\ flights' = p.flights
           /\ isSimulating' = (isSimulating \/ Len(p.flights) > Len(flights))
    /\ reads' = reads \ {r}
    /\ UNCHANGED <<balance, stored, failed, inputs>>

Next1(i) == \A j \in 1 .. (i - 1) : flights[j].key # flights[i].key

Turn(i) == i \in DOMAIN flights /\ (Ordered => Next1(i))

AlwaysEstimate(state, gas) == [state EXCEPT !.recent = gas]

(* A gas that hardly differs is not taken over: each change may make the   *)
(* amount another one, and the simulation begin again.                     *)
Estimate(state, gas) ==
    IF state.recent = Nothing \/ Differs(state.recent, gas)
    THEN [state EXCEPT !.recent = gas] ELSE state

KeyAtAnswer(flight) == form.key
KeyOfAnswer(flight) == flight.key

Succeed(i, gas) ==
    LET k == KeyOfAnswer(flights[i])
        answered == [Page EXCEPT !.states[k] = Estimate(@, gas), !.flights = RemoveAt(@, i)]
    IN  /\ Turn(i)
        /\ \E p \in React(Page, answered) :
              form' = p.form /\ states' = p.states /\ flights' = p.flights
        /\ isSimulating' = FALSE
        /\ stored' = [stored EXCEPT ![k] = gas]
        /\ failed' = [failed EXCEPT ![k] = FALSE]
        /\ UNCHANGED <<balance, reads, inputs>>

Fail(i) ==
    /\ Turn(i)
    /\ flights' = RemoveAt(flights, i)
    /\ isSimulating' = FALSE
    /\ failed' = [failed EXCEPT ![flights[i].key] = TRUE]
    /\ UNCHANGED <<form, balance, states, reads, stored, inputs>>

Answer(i) ==
    \/ Fail(i)
    \/ \E gas \in Uses[KeyOf[flights[i].tx.denom]][flights[i].fee = "paid"] : Succeed(i, gas)

Next ==
    \/ \E a \in Amounts : SetAmount(a)
    \/ ToggleIsMax \/ ToggleAuto
    \/ \E t \in FeeTypes : SetFeeType(t)
    \/ \E gas \in ManualGas, fee \in ManualFees : TypeGasAndFee(gas, fee)
    \/ \E d \in Denoms : SelectCurrency(d)
    \/ \E d \in Denoms : \E b \in Balances[d] : BalanceArrives(d, b)
    \/ \E r \in reads : LoadSaved(r)
    \/ \E i \in DOMAIN flights : Answer(i)

Spec == Init /\ [][Next]_vars

(* The node answers, or the request fails; the store answers.              *)
FairSpec ==
    /\ Spec
    /\ WF_vars(\E i \in DOMAIN flights : Answer(i))
    /\ WF_vars(\E r \in reads : LoadSaved(r))

-----------------------------------------------------------------------------
(* Numbers that are there or not, and simulations of known currencies.     *)
Number == Nat \cup {Nothing}
FeeKinds == {"unset", "none", "zero", "paid"}
Txs == [denom : Denoms, amount : Nat]
Forms == [denom : Denoms, amount : Number, isMax : BOOLEAN, feeType : FeeTypes \cup {Nothing},
          manualFee : Number, gas : Number, enabled : BOOLEAN, key : Keys]
States == [initial : Number, recent : Number, tx : Txs \cup {Nothing}, stdFee : FeeKinds]
Flights == [key : Keys, tx : Txs, fee : FeeKinds]

TypeOK ==
    /\ form \in Forms
    /\ balance \in [Denoms -> Nat]
    /\ states \in [Keys -> States]
    /\ flights \in Seq(Flights)
    /\ isSimulating \in BOOLEAN
    /\ reads \subseteq [key : Keys, saved : Number]
    /\ stored \in [Keys -> Number]
    /\ failed \in [Keys -> BOOLEAN]
    /\ inputs \in 0 .. MaxInputs

(* An estimate is kept and saved under the key of the currency whose       *)
(* transaction was simulated, though the currency, and with it the key,    *)
(* may change before the answer comes and in the middle of a render.       *)
EstimatesAreOfTheirKey ==
    \A k \in Keys : /\ states[k].initial \in Used(k) \cup {Nothing}
                    /\ states[k].recent \in Used(k) \cup {Nothing}
                    /\ stored[k] \in Used(k) \cup {Nothing}

(* When no simulation is on its way and the last one did not fail, the gas *)
(* is that of the transaction which would be sent now: of this amount,     *)
(* this currency, with a fee or without one, up to two hundredths.         *)
GasIsOfLatestTx ==
    LET k == form.key
        state == states[k]
    IN  form.enabled /\ ~AmountError(Page) /\ ~failed[k] /\ (\A i \in DOMAIN flights : flights[i].key # k)
          => /\ state.tx = TxOf(Page)
             /\ state.recent # Nothing /\ form.gas = Adjusted(state.recent)
             /\ \E gas \in Uses[KeyOf[form.denom]][FeeKind(form) = "paid"] : ~Differs(state.recent, gas)

(* With the maximum, what is left after the fee can always be sent with    *)
(* it, whatever simulations and balances do to the fee meanwhile.          *)
MaxLeavesTheFee ==
    form.isMax /\ ~AmountError(Page) /\ form.denom = FeeDenom /\ Gas(form) # 0 => ~FeeError(Page)

(* The gas changes the fee, the fee the amount, and the amount begins the  *)
(* next simulation: when the user rests, this ends.                        *)
SimulationsEnd == <>[](flights = <<>>)
=============================================================================
