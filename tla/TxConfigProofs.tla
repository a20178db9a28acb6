--------------------------- MODULE TxConfigProofs ---------------------------
(***************************************************************************)
(* Theorems about TxConfig, for all currencies, prices, estimates, inputs  *)
(* and orders of answers.                                                  *)
(***************************************************************************)
EXTENDS TxConfig, SequenceTheorems, TLAPS

(* What belongs to a key: transactions of its currencies, estimates that   *)
(* the node may give for them, and simulations of them.                    *)
OwnStates(k) == {s \in States : /\ s.tx # Nothing => KeyOf[s.tx.denom] = k
                                /\ s.initial \in Used(k) \cup {Nothing}
                                /\ s.recent \in Used(k) \cup {Nothing}}
OwnFlights == {f \in Flights : KeyOf[f.tx.denom] = f.key}

Pages == {p \in [form : Forms, balance : [Denoms -> Nat], states : [Keys -> States],
                 flights : Seq(OwnFlights)] :
            \A k \in Keys : p.states[k] \in OwnStates(k)}

(* In the middle of a render the key is that of the currency before; then  *)
(* there is no amount.                                                     *)
Keyed(f) == f.key = KeyOf[f.denom] \/ (f.amount = Nothing /\ ~f.isMax)

(* The inductive invariant.                                                *)
IInv ==
    /\ Page \in Pages
    /\ form.key = KeyOf[form.denom]
    /\ isSimulating \in BOOLEAN
    /\ reads \subseteq [key : Keys, saved : Number]
    /\ \A r \in reads : r.saved \in Used(r.key) \cup {Nothing}
    /\ stored \in [Keys -> Number]
    /\ \A k \in Keys : stored[k] \in Used(k) \cup {Nothing}
    /\ failed \in [Keys -> BOOLEAN]
    /\ inputs \in 0 .. MaxInputs

-----------------------------------------------------------------------------
LEMMA UsedAreNumbers ==
  \A k \in Keys : Used(k) \subseteq Nat \ {0}
  BY ConfigAssumption DEF Used

LEMMA FeeTyped ==
  ASSUME NEW f \in Forms
  PROVE  Fee(f) \in Number /\ FeeKind(f) \in FeeKinds /\ \A d \in Denoms : FeeIn(f, d) \in Nat
  <1>1. Gas(f) \in Nat
    BY ConfigAssumption DEF Gas, Forms, Number
  <1>2. ASSUME f.feeType # Nothing
        PROVE  RoundUp(Price[f.feeType] * Gas(f)) \in Nat
    <2>1. Price[f.feeType] \in Nat
      BY <1>2, ConfigAssumption DEF Forms
    <2>2. Price[f.feeType] * Gas(f) \in Nat
      BY <1>1, <2>1
    <2> QED BY <2>2 DEF RoundUp
  <1>3. Fee(f) \in Number
    BY <1>2 DEF Fee, Forms, Number
  <1> QED BY <1>3 DEF FeeIn, FeeKind, FeeKinds, Number

LEMMA AmountTyped ==
  ASSUME NEW p \in Pages
  PROVE  Amount(p) \in Number
  <1>1. p.form \in Forms /\ p.form.denom \in Denoms /\ p.balance[p.form.denom] \in Nat
    BY DEF Pages, Forms
  <1>2. FeeIn(p.form, p.form.denom) \in Nat
    BY <1>1, FeeTyped
  <1> QED BY <1>1, <1>2 DEF Amount, Forms, Number

(* A transaction that can be simulated has an amount.                      *)
LEMMA TxTyped ==
  ASSUME NEW p \in Pages, ~AmountError(p), Keyed(p.form)
  PROVE  TxOf(p) \in Txs /\ KeyOf[TxOf(p).denom] = p.form.key
  <1>1. Amount(p) \in Nat
    BY AmountTyped DEF AmountError, Number
  <1>2. p.form.key = KeyOf[p.form.denom]
    BY DEF Keyed, AmountError, Amount
  <1> QED BY <1>1, <1>2 DEF TxOf, Txs, Pages, Forms

-----------------------------------------------------------------------------
(* The reactions.                                                          *)
LEMMA SimulateTyped ==
  ASSUME NEW was, NEW p \in Pages, Keyed(p.form)
  PROVE  /\ Simulate(was, p) \in Pages
         /\ Simulate(was, p).form = p.form /\ Simulate(was, p).balance = p.balance
  <1> DEFINE k == p.form.key
             fresh == p.form.enabled /\ ~AmountError(p) /\ Observed(was) # Observed(p)
             tx == IF fresh THEN TxOf(p) ELSE p.states[k].tx
             fee == StdFee(p)
             due == tx # Nothing /\ (fresh \/ fee # p.states[k].stdFee \/ was.form.key # k)
             flight == [key |-> k, tx |-> tx, fee |-> fee]
             state == [p.states[k] EXCEPT !.tx = tx, !.stdFee = fee]
             flights1 == IF due THEN Append(p.flights, flight) ELSE p.flights
             states1 == [p.states EXCEPT ![k] = state]
  <1>1. /\ p.form \in Forms /\ k \in Keys /\ p.balance \in [Denoms -> Nat]
        /\ p.states \in [Keys -> States] /\ p.flights \in Seq(OwnFlights)
        /\ p.states[k] \in OwnStates(k) /\ p.states[k] \in States
    BY DEF Pages, Forms
  <1>2. fee \in FeeKinds
    BY <1>1, FeeTyped DEF StdFee, States
  <1>3. tx \in Txs \cup {Nothing} /\ (tx # Nothing => KeyOf[tx.denom] = k)
    <2>1. CASE fresh
      BY <2>1, TxTyped
    <2>2. CASE ~fresh
      BY <2>2, <1>1 DEF OwnStates, States
    <2> QED BY <2>1, <2>2
  <1>4. state \in OwnStates(k)
    <2>1. state \in States /\ state.tx = tx /\ state.initial = p.states[k].initial
          /\ state.recent = p.states[k].recent
      BY <1>1, <1>2, <1>3 DEF States
    <2> QED BY <2>1, <1>1, <1>3 DEF OwnStates
  <1>5. states1 \in [Keys -> States] /\ \A j \in Keys : states1[j] \in OwnStates(j)
    BY <1>1, <1>4 DEF Pages, OwnStates
  <1>6. flights1 \in Seq(OwnFlights)
    <2>1. ASSUME due PROVE flight \in OwnFlights
      BY <2>1, <1>1, <1>2, <1>3 DEF OwnFlights, Flights
    <2> QED BY <2>1, <1>1, AppendProperties
  <1>7. Simulate(was, p) = [p EXCEPT !.states = states1, !.flights = flights1]
    BY <1>1 DEF Simulate, Pages
  <1> QED BY <1>1, <1>5, <1>6, <1>7 DEF Pages

Same(f, g) == /\ f.denom = g.denom /\ f.amount = g.amount /\ f.isMax = g.isMax
              /\ f.enabled = g.enabled /\ f.key = g.key

LEMMA SetGasTyped ==
  ASSUME NEW p \in Pages
  PROVE  SetGas(p) \in Pages /\ Same(SetGas(p).form, p.form) /\ SetGas(p).balance = p.balance
  <1> DEFINE gas == Estimated(p.states[p.form.key])
  <1>1. p.form \in Forms /\ p.form.key \in Keys /\ p.states[p.form.key] \in States
    BY DEF Pages, Forms
  <1>2. CASE p.form.enabled /\ gas # Nothing
    <2>1. gas \in Nat
      BY <1>1, <1>2 DEF Estimated, States, Number
    <2>2. gas * Adjustment \in Nat
      BY <2>1, ConfigAssumption
    <2>3. Adjusted(gas) \in Number
      BY <2>2 DEF Adjusted, Number
    <2>4. [p.form EXCEPT !.gas = Adjusted(gas)] \in Forms
      BY <1>1, <2>3 DEF Forms
    <2>5. SetGas(p) = [p EXCEPT !.form = [p.form EXCEPT !.gas = Adjusted(gas)]]
      BY <1>2 DEF SetGas, Pages
    <2> QED BY <1>1, <2>4, <2>5 DEF Pages, Same, Forms
  <1>3. CASE ~(p.form.enabled /\ gas # Nothing)
    BY <1>3 DEF SetGas, Same
  <1> QED BY <1>2, <1>3

(* What follows from an input leaves everything but the gas as it was put  *)
(* in, and every transaction and simulation under its own key.             *)
LEMMA ReactTyped ==
  ASSUME NEW was, NEW p \in Pages, Keyed(p.form), NEW q \in React(was, p)
  PROVE  q \in Pages /\ Same(q.form, p.form) /\ q.balance = p.balance
  <1> DEFINE one == Simulate(was, p)
             two == SetGas(one)
  <1>1. q = Simulate(one, two)
    BY DEF React
  <1>2. one \in Pages /\ one.form = p.form /\ one.balance = p.balance
    BY SimulateTyped
  <1>3. two \in Pages /\ Same(two.form, p.form) /\ two.balance = p.balance
    <2> HIDE DEF one
    <2> QED BY <1>2, SetGasTyped
  <1>4. Keyed(two.form)
    BY <1>3 DEF Keyed, Same
  <1> HIDE DEF one, two
  <1> QED BY <1>1, <1>3, <1>4, SimulateTyped

-----------------------------------------------------------------------------
LEMMA PageTyped ==
  ASSUME IInv
  PROVE  /\ Page \in Pages /\ Keyed(form)
         /\ Page.form = form /\ Page.balance = balance /\ Page.states = states /\ Page.flights = flights
  BY DEF IInv, Page, Keyed

LEMMA PageAfter ==
  ASSUME NEW q \in Pages, form' = q.form, balance' = q.balance, states' = q.states, flights' = q.flights
  PROVE  (Page \in Pages)'
  <1>1. q = [form |-> q.form, balance |-> q.balance, states |-> q.states, flights |-> q.flights]
    BY DEF Pages
  <1>2. Page' = q
    BY <1>1 DEF Page
  <1> QED BY <1>2 DEF Pages, Forms, States, OwnStates, OwnFlights, Flights, Txs, Number, FeeKinds, Used

LEMMA InputKeeps ==
  ASSUME IInv, inputs < MaxInputs, inputs' = inputs + 1,
         NEW q \in Pages, q.form.key = KeyOf[q.form.denom], Becomes(q)
  PROVE  IInv'
  <1>1. (Page \in Pages)' /\ (form.key = KeyOf[form.denom])'
    BY PageAfter DEF Becomes
  <1>2. /\ (reads \subseteq [key : Keys, saved : Number])'
        /\ (\A r \in reads : r.saved \in Used(r.key) \cup {Nothing})'
    <2>1. q.form.key \in Keys
      BY DEF Pages, Forms
    <2>2. [key |-> q.form.key, saved |-> stored[q.form.key]] \in [key : Keys, saved : Number]
          /\ stored[q.form.key] \in Used(q.form.key) \cup {Nothing}
      BY <2>1 DEF IInv
    <2> QED BY <2>2 DEF IInv, Becomes, ReadsAfter, Used
  <1>3. isSimulating' \in BOOLEAN /\ inputs' \in 0 .. MaxInputs
    BY ConfigAssumption DEF IInv, Becomes
  <1> QED BY <1>1, <1>2, <1>3 DEF IInv, Becomes, Used

(* A form that the user changed, without its currency and key.             *)
LEMMA TypedKeeps ==
  ASSUME IInv, NEW f \in Forms, f.denom = form.denom, f.key = form.key, Typed(f)
  PROVE  IInv'
  <1> DEFINE p == [Page EXCEPT !.form = f]
  <1>1. p \in Pages /\ p.form = f
    BY PageTyped DEF Pages, Page
  <1>2. Keyed(p.form)
    BY <1>1, PageTyped DEF Keyed, IInv
  <1>3. PICK q \in React(Page, p) : Becomes(q)
    BY DEF Typed
  <1> HIDE DEF p
  <1>4. q \in Pages /\ Same(q.form, f)
    BY <1>1, <1>2, <1>3, ReactTyped
  <1>5. q.form.key = KeyOf[q.form.denom]
    BY <1>4 DEF Same, IInv
  <1> QED BY <1>3, <1>4, <1>5, InputKeeps DEF Typed

LEMMA FormTyped ==
  ASSUME IInv
  PROVE  form \in Forms /\ balance \in [Denoms -> Nat] /\ states \in [Keys -> States]
         /\ flights \in Seq(OwnFlights) /\ \A k \in Keys : states[k] \in OwnStates(k)
  BY PageTyped DEF Pages

LEMMA TypeGasAndFeeKeeps ==
  ASSUME IInv, NEW gas \in ManualGas, NEW fee \in ManualFees, TypeGasAndFee(gas, fee)
  PROVE  IInv'
  <1> DEFINE off == [Page EXCEPT !.form.enabled = FALSE]
             typed == [off EXCEPT !.form.gas = gas, !.form.manualFee = fee, !.form.feeType = Nothing]
             f == [form EXCEPT !.enabled = FALSE, !.gas = gas, !.manualFee = fee, !.feeType = Nothing]
  <1>1. f \in Forms /\ f.denom = form.denom /\ f.key = form.key
    BY FormTyped, ConfigAssumption DEF Forms, Number
  <1>2. typed = [Page EXCEPT !.form = f]
    BY FormTyped DEF Page, Forms
  <1>3. typed \in Pages /\ typed.form = f
    BY <1>1, <1>2, PageTyped DEF Pages, Page
  <1>4. PICK q \in React(off, typed) : Becomes(q)
    BY DEF TypeGasAndFee
  <1> HIDE DEF typed, off, f
  <1>5. Keyed(typed.form)
    BY <1>1, <1>3 DEF Keyed, IInv
  <1>6. q \in Pages /\ Same(q.form, f)
    BY <1>3, <1>4, <1>5, ReactTyped
  <1>7. q.form.key = KeyOf[q.form.denom]
    BY <1>1, <1>6 DEF Same, IInv
  <1> QED BY <1>4, <1>6, <1>7, InputKeeps DEF TypeGasAndFee

(* Three times the reactions: another currency without an amount, its key, *)
(* the simulator enabled.                                                  *)
OfCurrency(d) == [Page EXCEPT !.form = SetSendCurrency(form, d)]
OfKey(p, d) == [p EXCEPT !.form.key = KeyOf[d]]
Enabled(p) == [p EXCEPT !.form.enabled = TRUE]

Unfolds(d, chosen, rendered, q) ==
    /\ OfCurrency(d) \in Pages /\ Keyed(OfCurrency(d).form) /\ chosen \in React(Page, OfCurrency(d))
    /\ OfKey(chosen, d) \in Pages /\ Keyed(OfKey(chosen, d).form) /\ rendered \in React(chosen, OfKey(chosen, d))
    /\ Enabled(rendered) \in Pages /\ Keyed(Enabled(rendered).form) /\ q \in React(rendered, Enabled(rendered))
    /\ q.form.key = KeyOf[q.form.denom] /\ Becomes(q)

LEMMA SelectCurrencyUnfolds ==
  ASSUME IInv, NEW d \in Denoms, SelectCurrency(d)
  PROVE  \E chosen, rendered, q \in Pages : Unfolds(d, chosen, rendered, q)
  <1> DEFINE p1 == [Page EXCEPT !.form = SetSendCurrency(form, d)]
  <1>1. PICK chosen \in React(Page, p1) :
           \E rendered \in React(chosen, [chosen EXCEPT !.form.key = KeyOf[d]]) :
           \E p \in React(rendered, [rendered EXCEPT !.form.enabled = TRUE]) : Becomes(p)
    BY DEF SelectCurrency
  <1>2. PICK rendered \in React(chosen, [chosen EXCEPT !.form.key = KeyOf[d]]) :
           \E p \in React(rendered, [rendered EXCEPT !.form.enabled = TRUE]) : Becomes(p)
    BY <1>1
  <1>3. PICK q \in React(rendered, [rendered EXCEPT !.form.enabled = TRUE]) : Becomes(q)
    BY <1>2
  <1> DEFINE p2 == [chosen EXCEPT !.form.key = KeyOf[d]]
             p3 == [rendered EXCEPT !.form.enabled = TRUE]
  <1>4. p1 \in Pages /\ p1.form.denom = d /\ Keyed(p1.form)
    <2> DEFINE f == [form EXCEPT !.denom = d, !.amount = Nothing, !.isMax = FALSE]
    <2>1. SetSendCurrency(form, d) = f
      BY DEF SetSendCurrency, SelectCurrency
    <2>2. f \in Forms /\ f.denom = d /\ f.amount = Nothing /\ f.isMax = FALSE
      BY FormTyped DEF Forms, Number
    <2>3. p1 = [Page EXCEPT !.form = f]
      BY <2>1
    <2> HIDE DEF f, p1
    <2> QED BY <2>2, <2>3, PageTyped DEF Pages, Page, Keyed
  <1>5. chosen \in Pages /\ chosen.form.denom = d
    <2> HIDE DEF p1
    <2> QED BY <1>1, <1>4, ReactTyped DEF Same
  <1>6. p2 \in Pages /\ p2.form.denom = d /\ Keyed(p2.form)
    <2> DEFINE f == [chosen.form EXCEPT !.key = KeyOf[d]]
    <2>1. f \in Forms /\ f.denom = d /\ f.key = KeyOf[d]
      BY <1>5, ConfigAssumption DEF Pages, Forms
    <2>2. p2 = [chosen EXCEPT !.form = f]
      BY <1>5 DEF Pages
    <2> HIDE DEF f, p2
    <2> QED BY <1>5, <2>1, <2>2 DEF Pages, Keyed
  <1>7. rendered \in Pages /\ rendered.form.denom = d /\ rendered.form.key = KeyOf[d]
    <2>1. p2.form.key = KeyOf[d]
      BY <1>5 DEF Pages, Forms
    <2> HIDE DEF p2
    <2> QED BY <1>2, <1>6, <2>1, ReactTyped DEF Same, p2
  <1>8. p3 \in Pages /\ p3.form.denom = d /\ p3.form.key = KeyOf[d] /\ Keyed(p3.form)
    <2> DEFINE f == [rendered.form EXCEPT !.enabled = TRUE]
    <2>1. f \in Forms /\ f.denom = d /\ f.key = KeyOf[d]
      BY <1>7 DEF Pages, Forms
    <2>2. p3 = [rendered EXCEPT !.form = f]
      BY <1>7 DEF Pages
    <2> HIDE DEF f, p3
    <2> QED BY <1>7, <2>1, <2>2 DEF Pages, Keyed
  <1>9. q \in Pages /\ q.form.key = KeyOf[q.form.denom]
    <2>1. q \in React(rendered, p3)
      BY <1>3
    <2> HIDE DEF p3
    <2>2. q \in Pages /\ Same(q.form, p3.form)
      BY <1>8, <2>1, ReactTyped
    <2> QED BY <1>8, <2>2 DEF Same
  <1>10. Unfolds(d, chosen, rendered, q)
    BY <1>1, <1>2, <1>3, <1>4, <1>6, <1>8, <1>9 DEF Unfolds, OfCurrency, OfKey, Enabled
  <1> QED BY <1>5, <1>7, <1>9, <1>10

LEMMA SelectCurrencyKeeps ==
  ASSUME IInv, NEW d \in Denoms, SelectCurrency(d)
  PROVE  IInv'
  <1>1. PICK chosen, rendered, q \in Pages : Unfolds(d, chosen, rendered, q)
    BY SelectCurrencyUnfolds
  <1> QED BY <1>1, InputKeeps DEF SelectCurrency, Unfolds

LEMMA BalanceArrivesKeeps ==
  ASSUME IInv, NEW d \in Denoms, NEW b \in Balances[d], BalanceArrives(d, b)
  PROVE  IInv'
  <1> DEFINE p == [Page EXCEPT !.balance[d] = b]
  <1>1. p \in Pages /\ p.form = form
    BY PageTyped, FormTyped, ConfigAssumption DEF Pages, Page
  <1>2. PICK q \in React(Page, p) : Becomes(q)
    BY DEF BalanceArrives
  <1> HIDE DEF p
  <1>3. q \in Pages /\ Same(q.form, form)
    BY <1>1, <1>2, PageTyped, ReactTyped
  <1>4. q.form.key = KeyOf[q.form.denom]
    BY <1>3 DEF Same, IInv
  <1> QED BY <1>2, <1>3, <1>4, InputKeeps DEF BalanceArrives

-----------------------------------------------------------------------------
LEMMA RemoveAtTyped ==
  ASSUME NEW i \in DOMAIN flights, flights \in Seq(OwnFlights)
  PROVE  RemoveAt(flights, i) \in Seq(OwnFlights) /\ flights[i] \in OwnFlights
  <1>1. i \in 1 .. Len(flights) /\ Len(flights) \in Nat
    BY LenProperties
  <1>2. SubSeq(flights, 1, i - 1) \in Seq(OwnFlights) /\ SubSeq(flights, i + 1, Len(flights)) \in Seq(OwnFlights)
    BY <1>1, SubSeqProperties
  <1>3. flights[i] \in OwnFlights
    BY <1>1, ElementOfSeq
  <1> QED BY <1>2, <1>3, ConcatProperties DEF RemoveAt

LEMMA LoadSavedKeeps ==
  ASSUME IInv, NEW r \in reads, LoadSaved(r)
  PROVE  IInv'
  <1> DEFINE p == IF r.saved = Nothing THEN Page ELSE [Page EXCEPT !.states[r.key].initial = r.saved]
  <1>1. p \in Pages /\ p.form = form /\ p.balance = balance
    <2>1. r.key \in Keys /\ r.saved \in Number /\ r.saved \in Used(r.key) \cup {Nothing}
      BY DEF IInv
    <2> DEFINE state == [states[r.key] EXCEPT !.initial = r.saved]
    <2>2. state \in States /\ state \in OwnStates(r.key)
      BY <2>1, FormTyped DEF States, OwnStates
    <2> DEFINE states1 == [states EXCEPT ![r.key] = state]
    <2>3. states1 \in [Keys -> States] /\ \A k \in Keys : states1[k] \in OwnStates(k)
      BY <2>1, <2>2, FormTyped
    <2>4. [Page EXCEPT !.states[r.key].initial = r.saved] = [Page EXCEPT !.states = states1]
      BY DEF Page
    <2> HIDE DEF states1
    <2>5. [Page EXCEPT !.states = states1] \in Pages
      BY <2>3, PageTyped DEF Pages, Page
    <2> QED BY <2>4, <2>5, PageTyped DEF Page
  <1>2. PICK q \in React(Page, p) : /\ form' = q.form /\ states' = q.states /\ flights' = q.flights
                                    /\ isSimulating' = (isSimulating \/ Len(q.flights) > Len(flights))
    BY DEF LoadSaved
  <1> HIDE DEF p
  <1>3. q \in Pages /\ Same(q.form, form) /\ q.balance = balance
    BY <1>1, <1>2, PageTyped, ReactTyped
  <1>4. (Page \in Pages)' /\ (form.key = KeyOf[form.denom])'
    BY <1>2, <1>3, PageAfter DEF Same, IInv, LoadSaved
  <1> QED BY <1>2, <1>4 DEF IInv, LoadSaved, Used

LEMMA SucceedKeeps ==
  ASSUME IInv, NEW i \in DOMAIN flights,
         NEW gas \in Uses[KeyOf[flights[i].tx.denom]][flights[i].fee = "paid"], Succeed(i, gas)
  PROVE  IInv'
  <1> DEFINE k == flights[i].key
             p == [Page EXCEPT !.states[k] = Estimate(@, gas), !.flights = RemoveAt(@, i)]
  <1>0. flights[i] \in OwnFlights /\ RemoveAt(flights, i) \in Seq(OwnFlights)
    BY RemoveAtTyped, FormTyped
  <1>1. k \in Keys /\ gas \in Used(k)
    BY <1>0 DEF OwnFlights, Flights, Used
  <1>2. gas \in Number
    BY <1>1, UsedAreNumbers DEF Number
  <1>3. p \in Pages /\ p.form = form /\ p.balance = balance
    <2> DEFINE state == Estimate(states[k], gas)
               states1 == [states EXCEPT ![k] = state]
               flights1 == RemoveAt(flights, i)
    <2>1. state \in States /\ state \in OwnStates(k)
      <3>1. states[k] \in States /\ states[k] \in OwnStates(k)
        BY <1>1, FormTyped
      <3>2. [states[k] EXCEPT !.recent = gas] \in States
            /\ [states[k] EXCEPT !.recent = gas] \in OwnStates(k)
        BY <1>1, <1>2, <3>1 DEF States, OwnStates
      <3> QED BY <3>1, <3>2 DEF Estimate
    <2>2. states1 \in [Keys -> States] /\ \A j \in Keys : states1[j] \in OwnStates(j)
      BY <1>1, <2>1, FormTyped
    <2>3. p = [Page EXCEPT !.states = states1, !.flights = flights1]
      BY DEF Page
    <2> HIDE DEF states1, flights1
    <2>4. flights1 \in Seq(OwnFlights)
      BY <1>0 DEF flights1
    <2>5. [Page EXCEPT !.states = states1, !.flights = flights1] \in Pages
      BY <2>2, <2>4, PageTyped DEF Pages, Page
    <2> QED BY <2>3, <2>5 DEF Page
  <1>4. /\ \E q \in React(Page, p) : form' = q.form /\ states' = q.states /\ flights' = q.flights
        /\ isSimulating' = FALSE /\ stored' = [stored EXCEPT ![k] = gas]
        /\ failed' = [failed EXCEPT ![k] = FALSE] /\ UNCHANGED <<balance, reads, inputs>>
    BY DEF Succeed, KeyOfAnswer
  <1> HIDE DEF p, k
  <1>5. PICK q \in React(Page, p) : form' = q.form /\ states' = q.states /\ flights' = q.flights
    BY <1>4
  <1>6. q \in Pages /\ Same(q.form, form) /\ q.balance = balance
    BY <1>3, <1>5, PageTyped, ReactTyped
  <1>7. (Page \in Pages)' /\ (form.key = KeyOf[form.denom])'
    BY <1>4, <1>5, <1>6, PageAfter DEF Same, IInv
  <1>8. stored' \in [Keys -> Number] /\ \A j \in Keys : stored'[j] \in Used(j) \cup {Nothing}
    BY <1>1, <1>2, <1>4 DEF IInv
  <1> QED BY <1>4, <1>7, <1>8 DEF IInv, Used

LEMMA FailKeeps ==
  ASSUME IInv, NEW i \in DOMAIN flights, Fail(i)
  PROVE  IInv'
  <1>1. RemoveAt(flights, i) \in Seq(OwnFlights)
    BY RemoveAtTyped, FormTyped
  <1> DEFINE p == [form |-> form, balance |-> balance, states |-> states, flights |-> RemoveAt(flights, i)]
  <1>2. p \in Pages
    BY <1>1, FormTyped DEF Pages
  <1>3. (Page \in Pages)'
    BY <1>2, PageAfter DEF Fail
  <1> QED BY <1>3 DEF IInv, Fail, Used

-----------------------------------------------------------------------------
LEMMA InitInv ==
  Init => IInv
  <1> SUFFICES ASSUME Init PROVE IInv
    OBVIOUS
  <1>1. form \in Forms /\ form.key = KeyOf[form.denom]
    <2>1. PICK d \in Denoms :
             form = [denom |-> d, amount |-> Nothing, isMax |-> FALSE, feeType |-> Nothing,
                     manualFee |-> Nothing, gas |-> Nothing, enabled |-> TRUE, key |-> KeyOf[d]]
      BY DEF Init
    <2>2. KeyOf[d] \in Keys
      BY ConfigAssumption
    <2> QED BY <2>1, <2>2 DEF Forms, Number
  <1>2. balance \in [Denoms -> Nat]
    BY ConfigAssumption DEF Init
  <1>3. states \in [Keys -> States] /\ \A k \in Keys : states[k] \in OwnStates(k)
    BY DEF Init, States, OwnStates, Number, FeeKinds
  <1>4. flights \in Seq(OwnFlights)
    BY DEF Init
  <1>5. Page \in Pages
    BY <1>1, <1>2, <1>3, <1>4 DEF Page, Pages
  <1>6. stored \in [Keys -> Number] /\ \A k \in Keys : stored[k] \in Used(k) \cup {Nothing}
    BY UsedAreNumbers DEF Init, Number
  <1>7. form.key \in Keys
    BY <1>1 DEF Forms
  <1>8. reads = {[key |-> form.key, saved |-> stored[form.key]]}
    BY DEF Init
  <1>9. inputs \in 0 .. MaxInputs /\ isSimulating \in BOOLEAN /\ failed \in [Keys -> BOOLEAN]
    <2>1. inputs = 0 /\ isSimulating = FALSE /\ failed = [k \in Keys |-> FALSE]
      BY DEF Init
    <2>2. MaxInputs \in Nat
      BY ConfigAssumption
    <2>3. inputs \in 0 .. MaxInputs
      BY <2>1, <2>2
    <2>4. isSimulating \in BOOLEAN /\ failed \in [Keys -> BOOLEAN]
      BY <2>1, Zenon
    <2> QED BY <2>3, <2>4
  <1> QED BY <1>1, <1>5, <1>6, <1>7, <1>8, <1>9 DEF IInv

LEMMA StepInv ==
  IInv /\ [Next]_vars => IInv'
  <1> SUFFICES ASSUME IInv, [Next]_vars PROVE IInv'
    OBVIOUS
  <1> USE FormTyped
  <1>1. ASSUME NEW a \in Amounts, SetAmount(a) PROVE IInv'
    <2>1. [form EXCEPT !.amount = a, !.isMax = FALSE] \in Forms
      BY ConfigAssumption DEF Forms, Number
    <2> QED BY <1>1, <2>1, TypedKeeps DEF SetAmount, Forms
  <1>2. ASSUME ToggleIsMax PROVE IInv'
    BY <1>2, TypedKeeps DEF ToggleIsMax, Forms
  <1>3. ASSUME ToggleAuto PROVE IInv'
    BY <1>3, TypedKeeps DEF ToggleAuto, Forms
  <1>4. ASSUME NEW t \in FeeTypes, SetFeeType(t) PROVE IInv'
    <2>1. [form EXCEPT !.feeType = t, !.manualFee = Nothing] \in Forms
      BY DEF Forms, Number
    <2> QED BY <1>4, <2>1, TypedKeeps DEF SetFeeType, Forms
  <1>5. ASSUME NEW gas \in ManualGas, NEW fee \in ManualFees, TypeGasAndFee(gas, fee) PROVE IInv'
    BY <1>5, TypeGasAndFeeKeeps
  <1>6. ASSUME NEW d \in Denoms, SelectCurrency(d) PROVE IInv'
    BY <1>6, SelectCurrencyKeeps
  <1>7. ASSUME NEW d \in Denoms, NEW b \in Balances[d], BalanceArrives(d, b) PROVE IInv'
    BY <1>7, BalanceArrivesKeeps
  <1>8. ASSUME NEW r \in reads, LoadSaved(r) PROVE IInv'
    BY <1>8, LoadSavedKeeps
  <1>9. ASSUME NEW i \in DOMAIN flights, Answer(i) PROVE IInv'
    BY <1>9, SucceedKeeps, FailKeeps DEF Answer
  <1>10. CASE UNCHANGED vars
    BY <1>10 DEF vars, IInv, Page, Pages, Forms, States, OwnStates, OwnFlights, Flights, Txs, Number, FeeKinds, Used
  <1> QED BY <1>1, <1>2, <1>3, <1>4, <1>5, <1>6, <1>7, <1>8, <1>9, <1>10 DEF Next

LEMMA Invariance == Spec => []IInv
  BY InitInv, StepInv, PTL DEF Spec

(* Every number is a number and every simulation is of a transaction with  *)
(* an amount, also in the middle of a render, when the currency is already *)
(* another one: what GasSimulator hands to simulate() and setGas().        *)
THEOREM TxConfigTypeCorrect == Spec => []TypeOK
  <1>1. IInv => TypeOK
    <2> SUFFICES ASSUME IInv PROVE TypeOK
      OBVIOUS
    <2>1. OwnFlights \subseteq Flights
      BY DEF OwnFlights
    <2>2. flights \in Seq(Flights)
      BY <2>1, FormTyped
    <2> QED BY <2>2, FormTyped DEF TypeOK, IInv
  <1> QED BY <1>1, Invariance, PTL

(* GasSimulator keeps and saves every estimate under the key of the        *)
(* currency it was made for, whatever the user selects before the answer.  *)
THEOREM EstimatesKeepTheirKey == Spec => []EstimatesAreOfTheirKey
  <1>1. IInv => EstimatesAreOfTheirKey
    BY FormTyped DEF IInv, EstimatesAreOfTheirKey, OwnStates
  <1> QED BY <1>1, Invariance, PTL

(* AmountConfig and FeeConfig agree on the maximum: what the one computes  *)
(* the other finds payable, for every balance, price and gas.              *)
THEOREM MaximumIsPayable == Spec => []MaxLeavesTheFee
  <1>1. IInv => MaxLeavesTheFee
    <2> SUFFICES ASSUME IInv, form.isMax, ~AmountError(Page), form.denom = FeeDenom, Gas(form) # 0
                 PROVE  ~FeeError(Page)
      BY DEF MaxLeavesTheFee
    <2>1. form \in Forms /\ balance[FeeDenom] \in Nat /\ Fee(form) \in Number /\ FeeIn(form, FeeDenom) \in Nat
      BY FormTyped, FeeTyped, ConfigAssumption
    <2>2. Amount(Page) = IF balance[FeeDenom] > FeeIn(form, FeeDenom)
                         THEN balance[FeeDenom] - FeeIn(form, FeeDenom) ELSE 0
      BY DEF Amount, Page
    <2>3. Amount(Page) # 0 /\ Amount(Page) # Nothing
      BY DEF AmountError
    <2>4. Fee(form) # Nothing => Fee(form) + Amount(Page) = balance[FeeDenom]
      BY <2>1, <2>2, <2>3 DEF FeeIn, Number
    <2>5. Page.form = form /\ Page.balance = balance
      BY DEF Page
    <2> QED BY <2>1, <2>3, <2>4, <2>5 DEF FeeError, Number
  <1> QED BY <1>1, Invariance, PTL
-----------------------------------------------------------------------------
(* The gas and the simulations, when simulations under one key are         *)
(* answered in their order.                                                *)

(* The last simulation of a key is of the transaction and the fee that its *)
(* state has; when it was answered, so is the estimate.                    *)
None(fs, k) == \A n \in DOMAIN fs : fs[n].key # k
IsLast(fs, n) == \A m \in DOMAIN fs : m > n => fs[m].key # fs[n].key
LastIsOfState(fs, k, s) ==
    \A n \in DOMAIN fs : fs[n].key = k /\ IsLast(fs, n) => fs[n].tx = s.tx /\ fs[n].fee = s.stdFee
Answered(s, k) ==
    s.recent # Nothing /\ \E gas \in Uses[k][s.stdFee = "paid"] : ~Differs(s.recent, gas)

Followed(p, bad) ==
    \A k \in Keys :
        /\ p.states[k].tx = Nothing => None(p.flights, k)
        /\ LastIsOfState(p.flights, k, p.states[k])
        /\ p.states[k].tx # Nothing /\ None(p.flights, k) /\ ~bad[k] => Answered(p.states[k], k)

(* What holds after the reactions while the simulator is enabled.          *)
TxIsCurrent(p) == p.form.enabled /\ ~AmountError(p) => p.states[p.form.key].tx = TxOf(p)
FeeIsCurrent(p) == p.form.enabled => p.states[p.form.key].stdFee = FeeKind(p.form)
GasIsCurrent(p) ==
    LET gas == Estimated(p.states[p.form.key])
    IN  p.form.enabled /\ gas # Nothing => p.form.gas = Adjusted(gas)
Settled(p) == TxIsCurrent(p) /\ FeeIsCurrent(p) /\ GasIsCurrent(p)

GasFollows == Followed(Page, failed) /\ Settled(Page)

GasInv == IInv /\ GasFollows

LEMMA InventoryOfPage ==
  ASSUME NEW p \in Pages
  PROVE  /\ p.form \in Forms /\ p.form.key \in Keys /\ p.form.denom \in Denoms
         /\ p.balance \in [Denoms -> Nat] /\ p.states \in [Keys -> States] /\ p.flights \in Seq(OwnFlights)
  BY DEF Pages, Forms

(* The amount is that of the form and the balance.                         *)
LEMMA AmountOfForm ==
  ASSUME NEW p, NEW q, q.form = p.form, q.balance = p.balance
  PROVE  /\ Amount(q) = Amount(p) /\ TxOf(q) = TxOf(p)
         /\ AmountError(q) = AmountError(p)
  <1>1. Amount(q) = Amount(p)
    BY DEF Amount
  <1> QED BY <1>1 DEF TxOf, AmountError

(* What a simulation does to the state of its key and to the flights.      *)
Simulated(was, p, q, tx, fee) ==
    LET k == p.form.key
        fresh == p.form.enabled /\ ~AmountError(p) /\ Observed(was) # Observed(p)
    IN  /\ q.states = [p.states EXCEPT ![k] = [@ EXCEPT !.tx = tx, !.stdFee = fee]]
        /\ tx = IF fresh THEN TxOf(p) ELSE p.states[k].tx
        /\ fee = StdFee(p)
        /\ \/ tx # Nothing /\ q.flights = Append(p.flights, [key |-> k, tx |-> tx, fee |-> fee])
           \/ /\ q.flights = p.flights /\ tx = p.states[k].tx
              /\ tx # Nothing => fee = p.states[k].stdFee

LEMMA SimulateIs ==
  ASSUME NEW was, NEW p \in Pages, Keyed(p.form)
  PROVE  \E tx \in Txs \cup {Nothing}, fee \in FeeKinds : Simulated(was, p, Simulate(was, p), tx, fee)
  <1> DEFINE k == p.form.key
             fresh == p.form.enabled /\ ~AmountError(p) /\ Observed(was) # Observed(p)
             tx == IF fresh THEN TxOf(p) ELSE p.states[k].tx
             fee == StdFee(p)
             due == tx # Nothing /\ (fresh \/ fee # p.states[k].stdFee \/ was.form.key # k)
             flight == [key |-> k, tx |-> tx, fee |-> fee]
             state == [p.states[k] EXCEPT !.tx = tx, !.stdFee = fee]
             flights1 == IF due THEN Append(p.flights, flight) ELSE p.flights
             states1 == [p.states EXCEPT ![k] = state]
  <1>1. p.form \in Forms /\ k \in Keys /\ p.states[k] \in States
    BY InventoryOfPage
  <1>2. fee \in FeeKinds
    BY <1>1, FeeTyped DEF StdFee, States
  <1>3. tx \in Txs \cup {Nothing}
    BY <1>1, TxTyped DEF States
  <1>4. fresh => tx # Nothing
    BY TxTyped, ConfigAssumption DEF Txs
  <1>5. Simulate(was, p) = [p EXCEPT !.states = states1, !.flights = flights1]
    BY <1>1 DEF Simulate, Pages
  <1>6. Simulate(was, p).states = states1 /\ Simulate(was, p).flights = flights1
    BY <1>5 DEF Pages
  <1>7. ~due => tx = p.states[k].tx /\ (tx # Nothing => fee = p.states[k].stdFee)
    BY <1>4
  <1> HIDE DEF tx, fee, fresh
  <1>8. /\ Simulate(was, p).states = [p.states EXCEPT ![k] = [@ EXCEPT !.tx = tx, !.stdFee = fee]]
        /\ \/ tx # Nothing /\ Simulate(was, p).flights = Append(p.flights, [key |-> k, tx |-> tx, fee |-> fee])
           \/ /\ Simulate(was, p).flights = p.flights /\ tx = p.states[k].tx
              /\ tx # Nothing => fee = p.states[k].stdFee
    BY <1>6, <1>7
  <1>9. Simulated(was, p, Simulate(was, p), tx, fee)
    BY <1>8 DEF Simulated, tx, fee, fresh
  <1> QED BY <1>2, <1>3, <1>9

(* A simulation that begins is of what its state has; when none begins,    *)
(* the state is as it was.                                                 *)
LEMMA SimulateFollows ==
  ASSUME NEW was, NEW p \in Pages, Keyed(p.form), NEW bad, Followed(p, bad)
  PROVE  Followed(Simulate(was, p), bad)
  <1> DEFINE k == p.form.key
             q == Simulate(was, p)
  <1>0. PICK tx \in Txs \cup {Nothing}, fee \in FeeKinds : Simulated(was, p, q, tx, fee)
    BY SimulateIs
  <1> HIDE DEF q
  <1>1. /\ q.states = [p.states EXCEPT ![k] = [@ EXCEPT !.tx = tx, !.stdFee = fee]]
        /\ \/ tx # Nothing /\ q.flights = Append(p.flights, [key |-> k, tx |-> tx, fee |-> fee])
           \/ /\ q.flights = p.flights /\ tx = p.states[k].tx
              /\ tx # Nothing => fee = p.states[k].stdFee
    BY <1>0 DEF Simulated
  <1>2. k \in Keys /\ p.states \in [Keys -> States] /\ p.flights \in Seq(OwnFlights)
    BY InventoryOfPage
  <1>3. /\ q.states[k].tx = tx /\ q.states[k].stdFee = fee /\ q.states[k].recent = p.states[k].recent
        /\ \A j \in Keys \ {k} : q.states[j] = p.states[j]
    BY <1>1, <1>2 DEF States
  <1> SUFFICES ASSUME NEW j \in Keys
               PROVE  /\ q.states[j].tx = Nothing => None(q.flights, j)
                      /\ LastIsOfState(q.flights, j, q.states[j])
                      /\ q.states[j].tx # Nothing /\ None(q.flights, j) /\ ~bad[j] => Answered(q.states[j], j)
    BY DEF Followed, q
  <1>4. /\ p.states[j].tx = Nothing => None(p.flights, j)
        /\ LastIsOfState(p.flights, j, p.states[j])
        /\ p.states[j].tx # Nothing /\ None(p.flights, j) /\ ~bad[j] => Answered(p.states[j], j)
    BY DEF Followed
  <1>5. CASE tx # Nothing /\ q.flights = Append(p.flights, [key |-> k, tx |-> tx, fee |-> fee])
    <2> DEFINE L == Len(p.flights)
    <2>1. /\ L \in Nat /\ DOMAIN q.flights = 1 .. (L + 1) /\ DOMAIN p.flights = 1 .. L
          /\ q.flights[L + 1] = [key |-> k, tx |-> tx, fee |-> fee]
          /\ \A n \in 1 .. L : q.flights[n] = p.flights[n]
      BY <1>2, <1>5, AppendProperties, LenProperties
    <2>2. CASE j = k
      <3>1. ~None(q.flights, j)
        BY <2>1, <2>2 DEF None
      <3>2. LastIsOfState(q.flights, j, q.states[j])
        BY <1>3, <2>1, <2>2 DEF LastIsOfState, IsLast
      <3> QED BY <1>3, <1>5, <2>2, <3>1, <3>2
    <2>3. CASE j # k
      <3>1. None(q.flights, j) <=> None(p.flights, j)
        BY <2>1, <2>3 DEF None
      <3>2. LastIsOfState(q.flights, j, p.states[j])
        <4> SUFFICES ASSUME NEW n \in DOMAIN q.flights, q.flights[n].key = j, IsLast(q.flights, n)
                     PROVE  q.flights[n].tx = p.states[j].tx /\ q.flights[n].fee = p.states[j].stdFee
          BY DEF LastIsOfState
        <4>1. n \in 1 .. L /\ q.flights[n] = p.flights[n]
          BY <2>1, <2>3
        <4>2. IsLast(p.flights, n)
          BY <2>1, <4>1 DEF IsLast
        <4> QED BY <1>4, <2>1, <4>1, <4>2 DEF LastIsOfState
      <3> QED BY <1>3, <1>4, <2>3, <3>1, <3>2
    <2> QED BY <2>2, <2>3
  <1>6. CASE q.flights = p.flights /\ tx = p.states[k].tx /\ (tx # Nothing => fee = p.states[k].stdFee)
    <2>1. CASE j = k /\ tx # Nothing
      BY <1>3, <1>4, <1>6, <2>1 DEF LastIsOfState, Answered
    <2>2. CASE j = k /\ tx = Nothing
      <3>1. None(q.flights, j)
        BY <1>3, <1>4, <1>6, <2>2
      <3> QED BY <1>3, <2>2, <3>1 DEF LastIsOfState, None
    <2>3. CASE j # k
      BY <1>3, <1>4, <1>6, <2>3
    <2> QED BY <2>1, <2>2, <2>3
  <1> QED BY <1>1, <1>5, <1>6

(* After a simulation the transaction and the fee are those of the page,   *)
(* if the reaction saw what has changed.                                   *)
LEMMA SimulateSettles ==
  ASSUME NEW was, NEW p \in Pages, Keyed(p.form),
         Observed(was) = Observed(p) => TxIsCurrent(p)
  PROVE  LET q == Simulate(was, p)
         IN  TxIsCurrent(q) /\ FeeIsCurrent(q) /\ (GasIsCurrent(p) => GasIsCurrent(q))
  <1> DEFINE k == p.form.key
             q == Simulate(was, p)
             fresh == p.form.enabled /\ ~AmountError(p) /\ Observed(was) # Observed(p)
  <1>0. PICK tx \in Txs \cup {Nothing}, fee \in FeeKinds : Simulated(was, p, q, tx, fee)
    BY SimulateIs
  <1>1. /\ q.states = [p.states EXCEPT ![k] = [@ EXCEPT !.tx = tx, !.stdFee = fee]]
        /\ tx = IF fresh THEN TxOf(p) ELSE p.states[k].tx
        /\ fee = StdFee(p)
    BY <1>0 DEF Simulated
  <1>2. q.form = p.form /\ q.balance = p.balance
    BY SimulateTyped
  <1> HIDE DEF q, fresh
  <1>3. /\ q.states[k].tx = tx /\ q.states[k].stdFee = fee
        /\ q.states[k].recent = p.states[k].recent /\ q.states[k].initial = p.states[k].initial
    BY <1>1, InventoryOfPage DEF States
  <1>4. TxOf(q) = TxOf(p) /\ AmountError(q) = AmountError(p)
    BY <1>2, AmountOfForm
  <1>5. TxIsCurrent(q)
    BY <1>1, <1>2, <1>3, <1>4 DEF TxIsCurrent, fresh
  <1>6. FeeIsCurrent(q)
    BY <1>1, <1>2, <1>3 DEF FeeIsCurrent, StdFee
  <1>7. GasIsCurrent(p) => GasIsCurrent(q)
    BY <1>2, <1>3 DEF GasIsCurrent, Estimated
  <1> QED BY <1>5, <1>6, <1>7 DEF q

LEMMA SetGasSets ==
  ASSUME NEW p \in Pages
  PROVE  /\ GasIsCurrent(SetGas(p))
         /\ SetGas(p).states = p.states /\ SetGas(p).flights = p.flights
  <1> DEFINE gas == Estimated(p.states[p.form.key])
  <1>1. p.form \in Forms
    BY InventoryOfPage
  <1>2. CASE p.form.enabled /\ gas # Nothing
    <2>1. SetGas(p) = [p EXCEPT !.form = [p.form EXCEPT !.gas = Adjusted(gas)]]
      BY <1>2 DEF SetGas, Pages
    <2>2. /\ SetGas(p).form.gas = Adjusted(gas) /\ SetGas(p).form.key = p.form.key
          /\ SetGas(p).states = p.states /\ SetGas(p).flights = p.flights
      BY <1>1, <2>1 DEF Pages, Forms
    <2> QED BY <2>2 DEF GasIsCurrent
  <1>3. CASE ~(p.form.enabled /\ gas # Nothing)
    BY <1>3 DEF SetGas, GasIsCurrent
  <1> QED BY <1>2, <1>3

(* The reactions run once more after the gas is set: the fee it changes,   *)
(* and the amount that is what the fee leaves, are seen then.              *)
LEMMA ReactSettles ==
  ASSUME NEW was, NEW p \in Pages, Keyed(p.form), NEW bad, Followed(p, bad),
         Observed(was) = Observed(p) => TxIsCurrent(p), NEW q \in React(was, p)
  PROVE  Followed(q, bad) /\ Settled(q)
  <1> DEFINE one == Simulate(was, p)
             two == SetGas(one)
  <1>1. q = Simulate(one, two)
    BY DEF React
  <1>2. one \in Pages /\ one.form = p.form /\ Followed(one, bad) /\ TxIsCurrent(one)
    BY SimulateTyped, SimulateFollows, SimulateSettles
  <1> HIDE DEF one
  <1>3. /\ two \in Pages /\ Same(two.form, one.form)
        /\ two.states = one.states /\ two.flights = one.flights /\ GasIsCurrent(two)
    BY <1>2, SetGasTyped, SetGasSets
  <1> HIDE DEF two
  <1>4. Keyed(two.form)
    BY <1>2, <1>3 DEF Keyed, Same
  <1>5. Followed(two, bad)
    BY <1>2, <1>3 DEF Followed
  <1>6. Observed(one) = Observed(two) => TxIsCurrent(two)
    BY <1>2, <1>3 DEF TxIsCurrent, Observed, TxOf, Same
  <1> QED BY <1>1, <1>3, <1>4, <1>5, <1>6, SimulateFollows, SimulateSettles DEF Settled

(* The reactions to a page whose states and flights are those of a page    *)
(* that is settled.                                                        *)
LEMMA ReactKeepsSettled ==
  ASSUME NEW was \in Pages, NEW p \in Pages, Keyed(p.form), NEW bad,
         Followed(was, bad), TxIsCurrent(was), p.states = was.states, p.flights = was.flights,
         NEW q \in React(was, p)
  PROVE  Followed(q, bad) /\ Settled(q)
  <1>1. Followed(p, bad)
    BY DEF Followed
  <1>2. Observed(was) = Observed(p) => TxIsCurrent(p)
    BY DEF TxIsCurrent, Observed, TxOf
  <1> QED BY <1>1, <1>2, ReactSettles

-----------------------------------------------------------------------------
(* A simulation is answered.                                               *)
LEMMA RemoveAtIs ==
  ASSUME NEW S, NEW fs \in Seq(S), NEW i \in DOMAIN fs
  PROVE  /\ i \in 1 .. Len(fs) /\ Len(fs) \in Nat /\ DOMAIN fs = 1 .. Len(fs)
         /\ DOMAIN RemoveAt(fs, i) = 1 .. (Len(fs) - 1)
         /\ \A n \in 1 .. (Len(fs) - 1) : RemoveAt(fs, i)[n] = IF n < i THEN fs[n] ELSE fs[n + 1]
  <1> DEFINE L == Len(fs)
             a == SubSeq(fs, 1, i - 1)
             b == SubSeq(fs, i + 1, L)
  <1>1. i \in 1 .. L /\ L \in Nat /\ DOMAIN fs = 1 .. L
    BY LenProperties
  <1>2. a \in Seq(S) /\ Len(a) = i - 1 /\ \A n \in 1 .. (i - 1) : a[n] = fs[n]
    BY <1>1, SubSeqProperties
  <1>3. b \in Seq(S) /\ Len(b) = L - i /\ \A n \in 1 .. (L - i) : b[n] = fs[i + n]
    BY <1>1, SubSeqProperties
  <1> HIDE DEF a, b
  <1>4. /\ a \o b \in Seq(S) /\ Len(a \o b) = Len(a) + Len(b)
        /\ \A n \in 1 .. Len(a) + Len(b) : (a \o b)[n] = IF n <= Len(a) THEN a[n] ELSE b[n - Len(a)]
    BY <1>2, <1>3, ConcatProperties
  <1>5. Len(a) + Len(b) = L - 1
    BY <1>1, <1>2, <1>3
  <1>6. DOMAIN (a \o b) = 1 .. (L - 1)
    BY <1>4, <1>5, LenProperties
  <1>7. ASSUME NEW n \in 1 .. (L - 1)
        PROVE  (a \o b)[n] = IF n < i THEN fs[n] ELSE fs[n + 1]
    <2>1. (a \o b)[n] = IF n <= i - 1 THEN a[n] ELSE b[n - (i - 1)]
      BY <1>2, <1>4, <1>5
    <2>2. CASE n < i
      <3>1. n \in 1 .. (i - 1)
        BY <1>1, <2>2
      <3> QED BY <1>1, <1>2, <2>1, <2>2, <3>1
    <2>3. CASE ~(n < i)
      <3>1. n - (i - 1) \in 1 .. (L - i) /\ i + (n - (i - 1)) = n + 1 /\ ~(n <= i - 1)
        BY <1>1, <2>3
      <3> QED BY <1>3, <2>1, <2>3, <3>1
    <2> QED BY <2>2, <2>3
  <1> QED BY <1>1, <1>6, <1>7 DEF RemoveAt, a, b

(* When the oldest simulation of its key is answered, the last one remains *)
(* the last one, or was this one.                                          *)
LEMMA OthersRemain ==
  ASSUME NEW fs \in Seq(OwnFlights), NEW i \in DOMAIN fs,
         \A j \in 1 .. (i - 1) : fs[j].key # fs[i].key,
         NEW k \in Keys, NEW s, LastIsOfState(fs, k, s)
  PROVE  LET fs1 == RemoveAt(fs, i)
         IN  /\ LastIsOfState(fs1, k, s)
             /\ None(fs, k) => None(fs1, k)
             /\ None(fs1, k) => \/ None(fs, k)
                                \/ fs[i].key = k /\ fs[i].tx = s.tx /\ fs[i].fee = s.stdFee
  <1> DEFINE L == Len(fs)
             fs1 == RemoveAt(fs, i)
  <1>1. /\ i \in 1 .. L /\ L \in Nat /\ DOMAIN fs = 1 .. L /\ DOMAIN fs1 = 1 .. (L - 1)
        /\ \A n \in 1 .. (L - 1) : fs1[n] = IF n < i THEN fs[n] ELSE fs[n + 1]
    BY RemoveAtIs
  <1> HIDE DEF fs1
  <1>2. \A m \in 1 .. L : m < i => m \in DOMAIN fs1 /\ fs1[m] = fs[m]
    BY <1>1
  <1>3. \A m \in 1 .. L : m > i => m - 1 \in DOMAIN fs1 /\ fs1[m - 1] = fs[m]
    BY <1>1
  <1>4. LastIsOfState(fs1, k, s)
    <2> SUFFICES ASSUME NEW n \in DOMAIN fs1, fs1[n].key = k, IsLast(fs1, n)
                 PROVE  fs1[n].tx = s.tx /\ fs1[n].fee = s.stdFee
      BY DEF LastIsOfState
    <2> DEFINE m == IF n < i THEN n ELSE n + 1
    <2>1. m \in 1 .. L /\ m # i /\ fs1[n] = fs[m]
      BY <1>1
    <2>2. ASSUME NEW l \in 1 .. L, l > m PROVE fs[l].key # fs[m].key
      <3>1. CASE l < i
        <4>1. l > n
          BY <1>1, <2>2, <3>1
        <4> QED BY <1>2, <2>1, <3>1, <4>1 DEF IsLast
      <3>2. CASE l = i
        <4>1. m \in 1 .. (i - 1)
          BY <1>1, <2>1, <2>2, <3>2
        <4> QED BY <3>2, <4>1
      <3>3. CASE l > i
        <4>1. l - 1 > n
          BY <1>1, <2>2, <3>3
        <4> QED BY <1>3, <2>1, <3>3, <4>1 DEF IsLast
      <3> QED BY <1>1, <3>1, <3>2, <3>3
    <2> HIDE DEF m
    <2>3. IsLast(fs, m)
      BY <1>1, <2>1, <2>2 DEF IsLast
    <2> QED BY <1>1, <2>1, <2>3 DEF LastIsOfState
  <1>5. None(fs, k) => None(fs1, k)
    BY <1>1 DEF None
  <1>6. ASSUME None(fs1, k), ~None(fs, k)
        PROVE  fs[i].key = k /\ fs[i].tx = s.tx /\ fs[i].fee = s.stdFee
    <2>1. PICK m \in 1 .. L : fs[m].key = k
      BY <1>1, <1>6 DEF None
    <2>2. m = i
      <3>1. ~(m < i)
        BY <1>2, <1>6, <2>1 DEF None
      <3>2. ~(m > i)
        BY <1>3, <1>6, <2>1 DEF None
      <3> QED BY <1>1, <2>1, <3>1, <3>2
    <2>3. IsLast(fs, i)
      BY <1>1, <1>3, <1>6, <2>1, <2>2 DEF None, IsLast
    <2> QED BY <1>1, <2>1, <2>2, <2>3 DEF LastIsOfState
  <1> QED BY <1>4, <1>5, <1>6 DEF fs1

-----------------------------------------------------------------------------
(* One lemma for each action: the page it leaves is followed and settled.  *)
LEMMA PageThen ==
  ASSUME NEW q \in Pages, form' = q.form, balance' = q.balance, states' = q.states, flights' = q.flights
  PROVE  Page' = q
  BY DEF Pages, Page

LEMMA GasInvNow ==
  ASSUME GasInv
  PROVE  /\ IInv /\ Page \in Pages /\ Keyed(form) /\ Followed(Page, failed) /\ TxIsCurrent(Page) /\ Settled(Page)
         /\ Page.form = form /\ Page.balance = balance /\ Page.states = states /\ Page.flights = flights
  BY PageTyped DEF GasInv, GasFollows, Settled

LEMMA BecomesSettled ==
  ASSUME NEW q \in Pages, Followed(q, failed), Settled(q), Becomes(q)
  PROVE  GasFollows'
  <1>1. Page' = q /\ failed' = failed
    BY PageThen DEF Becomes
  <1>2. Followed(Page', failed')
    BY <1>1
  <1>3. Followed(Page, failed)'
    BY <1>2 DEF Followed, None, LastIsOfState, IsLast, Answered, Differs
  <1>4. Settled(Page')
    BY <1>1
  <1>5. Settled(Page)'
    BY <1>4 DEF Settled, TxIsCurrent, FeeIsCurrent, GasIsCurrent, Estimated, Adjusted, AmountError, Amount,
                FeeIn, Fee, FeeKind, RoundUp, Gas, TxOf
  <1> QED BY <1>3, <1>5 DEF GasFollows

(* What the user types, and what a balance brings: the states and the      *)
(* flights are what they were until the reactions run.                     *)
LEMMA InputSettles ==
  ASSUME GasInv, NEW p \in Pages, Keyed(p.form), p.states = states, p.flights = flights,
         NEW was \in Pages, was.states = states, was.flights = flights, TxIsCurrent(was),
         NEW q \in React(was, p), Becomes(q)
  PROVE  GasFollows'
  <1>1. Followed(was, failed)
    BY GasInvNow DEF Followed
  <1>2. Followed(q, failed) /\ Settled(q)
    BY <1>1, ReactKeepsSettled
  <1>3. q \in Pages
    BY ReactTyped
  <1> QED BY <1>2, <1>3, BecomesSettled

LEMMA TypedSettles ==
  ASSUME GasInv, NEW f \in Forms, f.denom = form.denom, f.key = form.key, Typed(f)
  PROVE  GasFollows'
  <1> DEFINE p == [Page EXCEPT !.form = f]
  <1>1. p \in Pages /\ p.form = f /\ p.states = states /\ p.flights = flights
    BY GasInvNow DEF Pages, Page
  <1>2. Keyed(p.form)
    BY <1>1, GasInvNow DEF Keyed, IInv
  <1>3. PICK q \in React(Page, p) : Becomes(q)
    BY DEF Typed
  <1> HIDE DEF p
  <1> QED BY <1>1, <1>2, <1>3, GasInvNow, InputSettles

LEMMA TypeGasAndFeeSettles ==
  ASSUME GasInv, NEW gas \in ManualGas, NEW fee \in ManualFees, TypeGasAndFee(gas, fee)
  PROVE  GasFollows'
  <1> DEFINE off == [Page EXCEPT !.form.enabled = FALSE]
             typed == [off EXCEPT !.form.gas = gas, !.form.manualFee = fee, !.form.feeType = Nothing]
             f0 == [form EXCEPT !.enabled = FALSE]
             f == [form EXCEPT !.enabled = FALSE, !.gas = gas, !.manualFee = fee, !.feeType = Nothing]
  <1>0. form \in Forms
    BY GasInvNow, FormTyped
  <1>1. f \in Forms /\ f.denom = form.denom /\ f.key = form.key
    BY <1>0, ConfigAssumption DEF Forms, Number
  <1>2. typed = [Page EXCEPT !.form = f]
    BY <1>0 DEF Page, Forms
  <1>3. typed \in Pages /\ typed.form = f /\ typed.states = states /\ typed.flights = flights
    BY <1>1, <1>2, GasInvNow DEF Pages, Page
  <1>4. off \in Pages /\ off.states = states /\ off.flights = flights /\ TxIsCurrent(off)
    <2>1. f0 \in Forms /\ ~f0.enabled
      BY <1>0 DEF Forms
    <2>2. off = [Page EXCEPT !.form = f0]
      BY DEF Page
    <2> HIDE DEF f0, off
    <2>3. off \in Pages /\ off.form = f0 /\ off.states = states /\ off.flights = flights
      BY <2>1, <2>2, GasInvNow DEF Pages, Page
    <2> QED BY <2>1, <2>3 DEF TxIsCurrent
  <1>5. PICK q \in React(off, typed) : Becomes(q)
    BY DEF TypeGasAndFee
  <1> HIDE DEF typed, off, f
  <1>6. Keyed(typed.form)
    BY <1>1, <1>3, GasInvNow DEF Keyed, IInv
  <1> QED BY <1>3, <1>4, <1>5, <1>6, InputSettles

LEMMA SelectCurrencySettles ==
  ASSUME GasInv, NEW d \in Denoms, SelectCurrency(d)
  PROVE  GasFollows'
  <1>1. PICK chosen, rendered, q \in Pages : Unfolds(d, chosen, rendered, q)
    BY GasInvNow, SelectCurrencyUnfolds
  <1>2. Followed(chosen, failed) /\ Settled(chosen)
    <2>1. OfCurrency(d).states = Page.states /\ OfCurrency(d).flights = Page.flights
      BY DEF OfCurrency, Page
    <2> QED BY <1>1, <2>1, GasInvNow, ReactKeepsSettled DEF Unfolds
  <1>3. Followed(rendered, failed) /\ Settled(rendered)
    <2>1. OfKey(chosen, d).states = chosen.states /\ OfKey(chosen, d).flights = chosen.flights
      BY <1>1 DEF OfKey, Pages
    <2> QED BY <1>1, <1>2, <2>1, ReactKeepsSettled DEF Unfolds, Settled
  <1>4. Followed(q, failed) /\ Settled(q)
    <2>1. Enabled(rendered).states = rendered.states /\ Enabled(rendered).flights = rendered.flights
      BY <1>1 DEF Enabled, Pages
    <2> QED BY <1>1, <1>3, <2>1, ReactKeepsSettled DEF Unfolds, Settled
  <1> QED BY <1>1, <1>4, BecomesSettled DEF Unfolds

LEMMA BalanceArrivesSettles ==
  ASSUME GasInv, NEW d \in Denoms, NEW b \in Balances[d], BalanceArrives(d, b)
  PROVE  GasFollows'
  <1> DEFINE p == [Page EXCEPT !.balance[d] = b]
  <1>1. p \in Pages /\ p.form = form /\ p.states = states /\ p.flights = flights
    BY GasInvNow, FormTyped, ConfigAssumption DEF Pages, Page
  <1>2. PICK q \in React(Page, p) : Becomes(q)
    BY DEF BalanceArrives
  <1> HIDE DEF p
  <1> QED BY <1>1, <1>2, GasInvNow, InputSettles

-----------------------------------------------------------------------------
(* Answers.  The form and the balance are what they were.                  *)
LEMMA AnswerSettles ==
  ASSUME GasInv, NEW p \in Pages, p.form = form, p.balance = balance,
         p.states[form.key].tx = states[form.key].tx, Followed(p, failed'),
         NEW q \in React(Page, p),
         form' = q.form, balance' = balance, states' = q.states, flights' = q.flights
  PROVE  GasFollows'
  <1>1. TxIsCurrent(p)
    <2>1. TxOf(p) = TxOf(Page) /\ AmountError(p) = AmountError(Page)
      BY GasInvNow, AmountOfForm
    <2> QED BY <2>1, GasInvNow DEF TxIsCurrent
  <1>2. Keyed(p.form)
    BY GasInvNow
  <1>3. Followed(q, failed') /\ Settled(q)
    BY <1>1, <1>2, ReactSettles
  <1>4. q \in Pages /\ q.balance = balance'
    BY <1>2, ReactTyped
  <1>5. Page' = q
    BY <1>4, PageThen
  <1>6. Followed(Page, failed)'
    <2>1. Followed(Page', failed')
      BY <1>3, <1>5
    <2> QED BY <2>1 DEF Followed, None, LastIsOfState, IsLast, Answered, Differs
  <1>7. Settled(Page)'
    <2>1. Settled(Page')
      BY <1>3, <1>5
    <2> QED BY <2>1 DEF Settled, TxIsCurrent, FeeIsCurrent, GasIsCurrent, Estimated, Adjusted, AmountError,
                        Amount, FeeIn, Fee, FeeKind, RoundUp, Gas, TxOf
  <1> QED BY <1>6, <1>7 DEF GasFollows

LEMMA LoadSavedSettles ==
  ASSUME GasInv, NEW r \in reads, LoadSaved(r)
  PROVE  GasFollows'
  <1> DEFINE p == IF r.saved = Nothing THEN Page ELSE [Page EXCEPT !.states[r.key].initial = r.saved]
  <1>0. r.key \in Keys /\ r.saved \in Number /\ r.saved \in Used(r.key) \cup {Nothing}
    BY GasInvNow DEF IInv
  <1> DEFINE state == [states[r.key] EXCEPT !.initial = r.saved]
             states1 == [states EXCEPT ![r.key] = state]
  <1>1. state \in States /\ state \in OwnStates(r.key)
    BY <1>0, GasInvNow, FormTyped DEF States, OwnStates
  <1>2. /\ state.tx = states[r.key].tx /\ state.stdFee = states[r.key].stdFee
        /\ state.recent = states[r.key].recent
    BY <1>0, GasInvNow, FormTyped DEF States
  <1> HIDE DEF state
  <1>3. /\ states1 \in [Keys -> States] /\ \A k \in Keys : states1[k] \in OwnStates(k)
        /\ \A k \in Keys : /\ states1[k].tx = states[k].tx /\ states1[k].stdFee = states[k].stdFee
                           /\ states1[k].recent = states[k].recent
    BY <1>0, <1>1, <1>2, GasInvNow, FormTyped
  <1>4. [Page EXCEPT !.states[r.key].initial = r.saved] = [Page EXCEPT !.states = states1]
    BY DEF Page, state
  <1> HIDE DEF states1
  <1>5. [Page EXCEPT !.states = states1] \in Pages
    BY <1>3, GasInvNow DEF Pages, Page
  <1>6. /\ p \in Pages /\ p.form = form /\ p.balance = balance /\ p.flights = flights
        /\ \A k \in Keys : /\ p.states[k].tx = states[k].tx /\ p.states[k].stdFee = states[k].stdFee
                           /\ p.states[k].recent = states[k].recent
    BY <1>3, <1>4, <1>5, GasInvNow DEF Page
  <1>7. PICK q \in React(Page, p) : form' = q.form /\ states' = q.states /\ flights' = q.flights
    BY DEF LoadSaved
  <1> HIDE DEF p
  <1>8. Followed(p, failed)
    BY <1>6, GasInvNow DEF Followed, LastIsOfState, Answered
  <1>9. p.states[form.key].tx = states[form.key].tx
    BY <1>6, GasInvNow, InventoryOfPage
  <1> QED BY <1>6, <1>7, <1>8, <1>9, AnswerSettles DEF LoadSaved

(* The oldest simulation of its key leaves.  If it was the last, its       *)
(* state's estimate is what the node has answered, or nearly.              *)
LEMMA OldestLeaves ==
  ASSUME GasInv, Ordered = TRUE, NEW i \in DOMAIN flights, Turn(i), NEW k \in Keys
  PROVE  LET fs1 == RemoveAt(flights, i)
         IN  /\ LastIsOfState(fs1, k, states[k])
             /\ states[k].tx = Nothing => None(fs1, k)
             /\ None(fs1, k) => \/ None(flights, k)
                                \/ /\ flights[i].key = k
                                   /\ flights[i].tx = states[k].tx /\ flights[i].fee = states[k].stdFee
  <1>1. \A j \in 1 .. (i - 1) : flights[j].key # flights[i].key
    BY DEF Turn, Next1
  <1>2. flights \in Seq(OwnFlights)
    BY GasInvNow, FormTyped
  <1>3. LastIsOfState(flights, k, states[k]) /\ (states[k].tx = Nothing => None(flights, k))
    BY GasInvNow DEF Followed
  <1> QED BY <1>1, <1>2, <1>3, OthersRemain

LEMMA SucceedSettles ==
  ASSUME GasInv, Ordered = TRUE, NEW i \in DOMAIN flights,
         NEW gas \in Uses[KeyOf[flights[i].tx.denom]][flights[i].fee = "paid"], Succeed(i, gas)
  PROVE  GasFollows'
  <1> DEFINE k == flights[i].key
             fs1 == RemoveAt(flights, i)
             state == Estimate(states[k], gas)
             states1 == [states EXCEPT ![k] = state]
             p == [Page EXCEPT !.states = states1, !.flights = fs1]
  <1>1. flights[i] \in OwnFlights /\ fs1 \in Seq(OwnFlights)
    BY RemoveAtTyped, GasInvNow, FormTyped
  <1>2. k \in Keys /\ gas \in Used(k) /\ gas \in Number /\ gas \in Uses[k][flights[i].fee = "paid"]
    BY <1>1, UsedAreNumbers DEF OwnFlights, Flights, Used, Number
  <1>3. states[k] \in States /\ states[k] \in OwnStates(k) /\ states \in [Keys -> States]
    BY <1>2, GasInvNow, FormTyped
  <1>4. /\ state \in States /\ state \in OwnStates(k)
        /\ state.tx = states[k].tx /\ state.stdFee = states[k].stdFee
        /\ state.recent # Nothing /\ ~Differs(state.recent, gas)
    <2>1. [states[k] EXCEPT !.recent = gas] \in States
          /\ [states[k] EXCEPT !.recent = gas] \in OwnStates(k)
      BY <1>2, <1>3 DEF States, OwnStates
    <2>2. gas # Nothing /\ ~Differs(gas, gas)
      <3>1. gas \in Nat \ {0}
        BY <1>2, UsedAreNumbers
      <3>2. (flights[i].fee = "paid") \in BOOLEAN
        OBVIOUS
      <3> QED BY <1>2, <3>1, <3>2, ConfigAssumption
    <2> QED BY <1>3, <2>1, <2>2 DEF Estimate, States
  <1> HIDE DEF state
  <1>5. /\ states1 \in [Keys -> States] /\ \A j \in Keys : states1[j] \in OwnStates(j)
        /\ states1[k] = state /\ \A j \in Keys \ {k} : states1[j] = states[j]
    BY <1>2, <1>3, <1>4, GasInvNow, FormTyped
  <1>6. PICK q \in React(Page, [Page EXCEPT !.states[k] = Estimate(@, gas), !.flights = RemoveAt(@, i)]) :
           form' = q.form /\ states' = q.states /\ flights' = q.flights
    BY DEF Succeed, KeyOfAnswer
  <1>7. [Page EXCEPT !.states[k] = Estimate(@, gas), !.flights = RemoveAt(@, i)] = p
    BY DEF Page, state
  <1>8. failed' = [failed EXCEPT ![k] = FALSE] /\ failed \in [Keys -> BOOLEAN] /\ balance' = balance
    BY GasInvNow DEF Succeed, KeyOfAnswer, IInv
  <1> HIDE DEF k, fs1, states1
  <1>9. /\ p \in Pages /\ p.form = form /\ p.balance = balance
        /\ p.states = states1 /\ p.flights = fs1
    BY <1>1, <1>5, GasInvNow DEF Pages, Page
  <1> HIDE DEF p
  <1>10. Followed(p, failed')
    <2> SUFFICES ASSUME NEW j \in Keys
                 PROVE  /\ states1[j].tx = Nothing => None(fs1, j)
                        /\ LastIsOfState(fs1, j, states1[j])
                        /\ states1[j].tx # Nothing /\ None(fs1, j) /\ ~failed'[j] => Answered(states1[j], j)
      BY <1>9 DEF Followed
    <2>1. /\ LastIsOfState(fs1, j, states[j])
          /\ states[j].tx = Nothing => None(fs1, j)
          /\ None(fs1, j) => \/ None(flights, j)
                             \/ /\ flights[i].key = j
                                /\ flights[i].tx = states[j].tx /\ flights[i].fee = states[j].stdFee
      BY OldestLeaves DEF Succeed, fs1
    <2>2. CASE j = k
      <3>1. LastIsOfState(fs1, j, states1[j]) /\ (states1[j].tx = Nothing => None(fs1, j))
        BY <1>4, <1>5, <2>1, <2>2 DEF LastIsOfState
      <3>2. ~None(flights, j)
        BY <2>2 DEF None, k
      <3>3. None(fs1, j) => Answered(states1[j], j)
        BY <1>2, <1>4, <1>5, <2>1, <2>2, <3>2 DEF Answered
      <3> QED BY <3>1, <3>3
    <2>3. CASE j # k
      <3>1. states1[j] = states[j] /\ failed'[j] = failed[j]
        BY <1>5, <1>8, <2>3
      <3>2. None(fs1, j) => None(flights, j)
        BY <2>1, <2>3 DEF k
      <3>3. states[j].tx # Nothing /\ None(flights, j) /\ ~failed[j] => Answered(states[j], j)
        BY GasInvNow DEF Followed
      <3> QED BY <2>1, <3>1, <3>2, <3>3
    <2> QED BY <2>2, <2>3
  <1>11. p.states[form.key].tx = states[form.key].tx
    <2>1. form.key \in Keys
      BY GasInvNow, InventoryOfPage
    <2> QED BY <1>4, <1>5, <1>9, <2>1
  <1> QED BY <1>6, <1>7, <1>8, <1>9, <1>10, <1>11, AnswerSettles

LEMMA FailSettles ==
  ASSUME GasInv, Ordered = TRUE, NEW i \in DOMAIN flights, Fail(i)
  PROVE  GasFollows'
  <1> DEFINE k == flights[i].key
             fs1 == RemoveAt(flights, i)
             p == [form |-> form, balance |-> balance, states |-> states, flights |-> fs1]
  <1>1. fs1 \in Seq(OwnFlights) /\ flights[i] \in OwnFlights
    BY RemoveAtTyped, GasInvNow, FormTyped
  <1>2. p \in Pages /\ Page' = p
    BY <1>1, GasInvNow, FormTyped DEF Pages, Fail, Page
  <1>3. failed' = [failed EXCEPT ![k] = TRUE] /\ failed \in [Keys -> BOOLEAN] /\ k \in Keys
    BY <1>1, GasInvNow DEF Fail, IInv, OwnFlights, Flights
  <1> HIDE DEF k, fs1
  <1>4. Followed(p, failed')
    <2> SUFFICES ASSUME NEW j \in Keys
                 PROVE  /\ states[j].tx = Nothing => None(fs1, j)
                        /\ LastIsOfState(fs1, j, states[j])
                        /\ states[j].tx # Nothing /\ None(fs1, j) /\ ~failed'[j] => Answered(states[j], j)
      BY DEF Followed
    <2>1. /\ LastIsOfState(fs1, j, states[j])
          /\ states[j].tx = Nothing => None(fs1, j)
          /\ None(fs1, j) => None(flights, j) \/ flights[i].key = j
      BY OldestLeaves DEF Fail, fs1
    <2>2. j = k => failed'[j]
      BY <1>3
    <2>3. j # k => failed'[j] = failed[j] /\ (None(fs1, j) => None(flights, j))
      BY <1>3, <2>1 DEF k
    <2>4. states[j].tx # Nothing /\ None(flights, j) /\ ~failed[j] => Answered(states[j], j)
      BY GasInvNow DEF Followed
    <2> QED BY <2>1, <2>2, <2>3, <2>4
  <1>5. Settled(p)
    <2>1. TxOf(p) = TxOf(Page) /\ AmountError(p) = AmountError(Page)
      BY GasInvNow, AmountOfForm
    <2> QED BY <2>1, GasInvNow DEF Settled, TxIsCurrent, FeeIsCurrent, GasIsCurrent
  <1> HIDE DEF p
  <1>6. Followed(Page, failed)'
    <2>1. Followed(Page', failed')
      BY <1>2, <1>4
    <2> QED BY <2>1 DEF Followed, None, LastIsOfState, IsLast, Answered, Differs
  <1>7. Settled(Page)'
    <2>1. Settled(Page')
      BY <1>2, <1>5
    <2> QED BY <2>1 DEF Settled, TxIsCurrent, FeeIsCurrent, GasIsCurrent, Estimated, Adjusted, AmountError,
                        Amount, FeeIn, Fee, FeeKind, RoundUp, Gas, TxOf
  <1> QED BY <1>6, <1>7 DEF GasFollows

-----------------------------------------------------------------------------
LEMMA InitGasInv ==
  Init => GasInv
  <1> SUFFICES ASSUME Init PROVE Followed(Page, failed) /\ Settled(Page)
    BY InitInv DEF GasInv, GasFollows
  <1>1. IInv
    BY InitInv
  <1>2. form.amount = Nothing /\ ~form.isMax /\ form.manualFee = Nothing /\ form.feeType = Nothing
    BY DEF Init
  <1>3. /\ form.key \in Keys /\ flights = <<>>
        /\ \A k \in Keys : /\ states[k].initial = Nothing /\ states[k].recent = Nothing /\ states[k].tx = Nothing
                           /\ k = form.key => states[k].stdFee = "none"
    BY <1>1, FormTyped DEF Init, Forms
  <1>4. AmountError(Page)
    BY <1>2 DEF AmountError, Amount, Page
  <1>5. FeeKind(form) = "none"
    BY <1>2, ConfigAssumption DEF FeeKind, Fee
  <1>6. Followed(Page, failed)
    BY <1>3 DEF Followed, Page, None, LastIsOfState
  <1> QED BY <1>3, <1>4, <1>5, <1>6 DEF Settled, TxIsCurrent, FeeIsCurrent, GasIsCurrent, Estimated, Page

LEMMA StepGasInv ==
  ASSUME Ordered = TRUE
  PROVE  GasInv /\ [Next]_vars => GasInv'
  <1> SUFFICES ASSUME GasInv, [Next]_vars PROVE GasFollows'
    BY GasInvNow, StepInv DEF GasInv
  <1>0. form \in Forms
    BY GasInvNow, FormTyped
  <1>1. ASSUME NEW a \in Amounts, SetAmount(a) PROVE GasFollows'
    <2>1. [form EXCEPT !.amount = a, !.isMax = FALSE] \in Forms
      BY <1>0, ConfigAssumption DEF Forms, Number
    <2> QED BY <1>0, <1>1, <2>1, TypedSettles DEF SetAmount, Forms
  <1>2. ASSUME ToggleIsMax PROVE GasFollows'
    BY <1>0, <1>2, TypedSettles DEF ToggleIsMax, Forms
  <1>3. ASSUME ToggleAuto PROVE GasFollows'
    BY <1>0, <1>3, TypedSettles DEF ToggleAuto, Forms
  <1>4. ASSUME NEW t \in FeeTypes, SetFeeType(t) PROVE GasFollows'
    <2>1. [form EXCEPT !.feeType = t, !.manualFee = Nothing] \in Forms
      BY <1>0 DEF Forms, Number
    <2> QED BY <1>0, <1>4, <2>1, TypedSettles DEF SetFeeType, Forms
  <1>5. ASSUME NEW gas \in ManualGas, NEW fee \in ManualFees, TypeGasAndFee(gas, fee) PROVE GasFollows'
    BY <1>5, TypeGasAndFeeSettles
  <1>6. ASSUME NEW d \in Denoms, SelectCurrency(d) PROVE GasFollows'
    BY <1>6, SelectCurrencySettles
  <1>7. ASSUME NEW d \in Denoms, NEW b \in Balances[d], BalanceArrives(d, b) PROVE GasFollows'
    BY <1>7, BalanceArrivesSettles
  <1>8. ASSUME NEW r \in reads, LoadSaved(r) PROVE GasFollows'
    BY <1>8, LoadSavedSettles
  <1>9. ASSUME NEW i \in DOMAIN flights, Answer(i) PROVE GasFollows'
    BY <1>9, SucceedSettles, FailSettles DEF Answer
  <1>10. CASE UNCHANGED vars
    <2>1. Page' = Page /\ failed' = failed
      BY <1>10 DEF vars, Page
    <2>2. Followed(Page', failed') /\ Settled(Page')
      BY <2>1, GasInvNow
    <2>3. Followed(Page, failed)'
      BY <2>2 DEF Followed, None, LastIsOfState, IsLast, Answered, Differs
    <2>4. Settled(Page)'
      BY <2>2 DEF Settled, TxIsCurrent, FeeIsCurrent, GasIsCurrent, Estimated, Adjusted, AmountError,
                  Amount, FeeIn, Fee, FeeKind, RoundUp, Gas, TxOf
    <2> QED BY <2>3, <2>4 DEF GasFollows
  <1> QED BY <1>1, <1>2, <1>3, <1>4, <1>5, <1>6, <1>7, <1>8, <1>9, <1>10 DEF Next

(* When the node answers the simulations of a key in the order in which    *)
(* GasSimulator asked for them, the gas of the form is that of the         *)
(* transaction which would be sent, as soon as none is on its way and the  *)
(* last one did not fail: whatever amounts, fees, currencies and balances  *)
(* came in between, and although an answer within two hundredths of the    *)
(* last estimate is not taken over.                                        *)
THEOREM GasFollowsTheTransaction ==
  ASSUME Ordered = TRUE
  PROVE  Spec => []GasIsOfLatestTx
  <1>1. GasInv => GasIsOfLatestTx
    <2> SUFFICES ASSUME GasInv, form.enabled, ~AmountError(Page), ~failed[form.key],
                        \A i \in DOMAIN flights : flights[i].key # form.key
                 PROVE  /\ states[form.key].tx = TxOf(Page)
                        /\ states[form.key].recent # Nothing
                        /\ form.gas = Adjusted(states[form.key].recent)
                        /\ \E gas \in Uses[KeyOf[form.denom]][FeeKind(form) = "paid"] :
                              ~Differs(states[form.key].recent, gas)
      BY DEF GasIsOfLatestTx
    <2> DEFINE k == form.key
    <2>1. k \in Keys /\ k = KeyOf[form.denom] /\ None(flights, k)
      BY GasInvNow, InventoryOfPage DEF IInv, None
    <2>2. states[k].tx = TxOf(Page) /\ states[k].stdFee = FeeKind(form)
      BY GasInvNow DEF Settled, TxIsCurrent, FeeIsCurrent
    <2>3. TxOf(Page) # Nothing
      BY GasInvNow, TxTyped, ConfigAssumption DEF Txs
    <2>4. Answered(states[k], k)
      BY <2>1, <2>2, <2>3, GasInvNow DEF Followed
    <2>5. form.gas = Adjusted(states[k].recent)
      BY <2>4, GasInvNow DEF Settled, GasIsCurrent, Estimated, Answered
    <2> QED BY <2>1, <2>2, <2>4, <2>5 DEF Answered
  <1> QED BY <1>1, InitGasInv, StepGasInv, PTL DEF Spec

=============================================================================
