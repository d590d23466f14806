------------------------ MODULE InvoiceBuilderProofs ------------------------
(***************************************************************************)
(* That an invoice is not changed by later calls on its builder, and that  *)
(* its amounts agree with its lines and with each other, for any sets of   *)
(* parties, lines, rates and addresses and any number of calls.            *)
(***************************************************************************)
EXTENDS InvoiceBuilder, NaturalLemmas

(* The address of a buyer, of the builder's or of an invoice's, is in a    *)
(* cell: a builder with a buyer has stored the address first.              *)
AddressInv ==
    /\ cells \in [Cells -> Addresses]
    /\ buyer.name # "" \/ Given(buyer.nip) => buyerAddress \in Cells
    /\ Built /\ invoice.Podmiot2 # Absent => invoice.Podmiot2.adres \in Cells

(* A builder starts without a buyer, and nothing has been built.           *)
LEMMA InitAddress == Init => AddressInv
<1> SUFFICES ASSUME Init PROVE AddressInv
  OBVIOUS
<1>1. buyer.name = "" /\ buyer.nip.bytes = 0
  BY DEF Init, NoParty
<1>2. cells \in [Cells -> Addresses] /\ ~Built
  BY DEF Init, Built
<1> QED
  BY <1>1, <1>2 DEF AddressInv, Given

(* Calls that leave parties and invoice alone preserve the invariant.      *)
LEMMA OthersKeepAddress ==
    ASSUME AddressInv, UNCHANGED <<buyer, buyerAddress, cells, invoice>>
    PROVE  AddressInv'
  BY DEF AddressInv, Given, Built

(* Every call preserves the invariant.                                     *)
LEMMA StepAddress == AddressInv /\ [Next]_vars => AddressInv'
<1> SUFFICES ASSUME AddressInv, [Next]_vars PROVE AddressInv'
  OBVIOUS
<1>1. CASE \/ SetSeller \/ SetInvoiceNumber \/ SetDates \/ SetPayment
           \/ SetCurrency \/ AddItem \/ BuildRejects \/ UNCHANGED vars
  <2>1. UNCHANGED <<buyer, buyerAddress, cells, invoice>>
    BY <1>1 DEF SetSeller, SetInvoiceNumber, SetDates, SetPayment,
                SetCurrency, AddItem, BuildRejects, parties, vars
  <2> QED
    BY <2>1, OthersKeepAddress
<1>2. CASE SetBuyer
  <2>1. PICK c \in Cells : StoreBuyer(c)
    BY <1>2 DEF SetBuyer, Free
  <2>2. cells' \in [Cells -> Addresses] /\ buyerAddress' = c /\ invoice' = invoice
    BY <2>1 DEF StoreBuyer, AddressInv
  <2> QED
    BY <2>2 DEF AddressInv, Built
<1>3. CASE Build
  <2>1. PICK vat, gross : invoice' = assemble(vat, gross)
    BY <1>3 DEF Build
  <2>2. UNCHANGED <<buyer, buyerAddress, cells>>
    BY <1>3 DEF Build, parties
  <2>3. invoice'.Podmiot2 = IF buyer.name = "" /\ ~Given(buyer.nip) THEN Absent
                            ELSE [party |-> buyer, adres |-> buyerAddress]
    BY <2>1 DEF assemble
  <2>4. invoice'.Podmiot2 # Absent => invoice'.Podmiot2.adres \in Cells
    <3>1. CASE buyer.name = "" /\ ~Given(buyer.nip)
      BY <3>1, <2>3
    <3>2. CASE buyer.name # "" \/ Given(buyer.nip)
      <4>1. invoice'.Podmiot2 = [party |-> buyer, adres |-> buyerAddress]
        BY <3>2, <2>3
      <4>2. invoice'.Podmiot2.adres = buyerAddress
        BY <4>1
      <4>3. buyerAddress \in Cells
        BY <3>2 DEF AddressInv
      <4> QED
        BY <4>2, <4>3
    <3> QED
      BY <3>1, <3>2
  <2> QED
    BY <2>2, <2>4 DEF AddressInv, Given
<1> QED
  BY <1>1, <1>2, <1>3 DEF Next

(* Only Build changes what a reader of the invoice sees: the cell that     *)
(* SetBuyer writes is not the invoice's.                                   *)
LEMMA OnlyBuildChangesContent ==
    ASSUME AddressInv, Next, ~Build PROVE Content' = Content
<1>1. invoice' = invoice
  BY DEF Next, SetSeller, SetBuyer, StoreBuyer, SetInvoiceNumber, SetDates,
         SetPayment, SetCurrency, AddItem, BuildRejects
<1>2. CASE invoice = Absent \/ invoice.Podmiot2 = Absent
  BY <1>1, <1>2 DEF Content
<1>3. CASE invoice # Absent /\ invoice.Podmiot2 # Absent
  <2>1. invoice.Podmiot2.adres \in Cells
    BY <1>3 DEF AddressInv, Built
  <2>2. cells'[invoice.Podmiot2.adres] = cells[invoice.Podmiot2.adres]
    <3>1. CASE SetBuyer
      <4>1. PICK c \in Free : StoreBuyer(c)
        BY <3>1 DEF SetBuyer
      <4>2. c # invoice.Podmiot2.adres
        BY <4>1, <1>3 DEF Free
      <4> QED
        BY <4>1, <4>2, <2>1 DEF StoreBuyer, AddressInv
    <3>2. CASE ~SetBuyer
      BY <3>2 DEF Next, SetSeller, SetInvoiceNumber, SetDates, SetPayment,
                  SetCurrency, AddItem, BuildRejects, parties
    <3> QED
      BY <3>1, <3>2
  <2> QED
    BY <1>1, <1>3, <2>2 DEF Content
<1> QED
  BY <1>2, <1>3

(* An invoice that Build has returned does not change when the builder is  *)
(* used again (builder.go:65-71, 234).                                     *)
THEOREM BuiltIsFrozenThm == Spec => BuiltIsFrozen
<1>1. Spec => []AddressInv
  BY InitAddress, StepAddress, PTL DEF Spec
<1>2. AddressInv /\ [Next]_vars => [Content' # Content => Build]_vars
  BY OnlyBuildChangesContent
<1> QED
  BY <1>1, <1>2, PTL DEF Spec, BuiltIsFrozen

-----------------------------------------------------------------------------
(* Sums over the lines.                                                    *)

(* sum[i] is what the loop has added up after the i-th line.               *)
Adds(sum, lines, amount) ==
    /\ sum \in [0..Len(lines) -> Int]
    /\ sum[0] = 0
    /\ \A i \in Nat : i < Len(lines) => sum[i + 1] = sum[i] + amount[i + 1]

LEMMA SumIsAddedUp ==
    ASSUME NEW lines \in Seq(Lines), NEW amount \in [DOMAIN lines -> Int]
    PROVE  \E sum : Adds(sum, lines, amount)
                    /\ SumOver(lines, amount) = sum[Len(lines)]
<1> DEFINE n == Len(lines)
           step == [p \in Nat \X Int |->
                       IF p[1] < n THEN p[2] + amount[p[1] + 1] ELSE p[2]]
           body(g) == [i \in 0..n |->
                          IF i = 0 THEN 0 ELSE g[i - 1] + amount[i]]
           total == CHOOSE g : g = body(g)
<1>1. n \in Nat /\ \A i \in 1..n : amount[i] \in Int
  OBVIOUS
<1> HIDE DEF n
<1>2. PICK f : Recursive(f, Int, 0, step)
  <2>1. \A i \in Nat : i < n => i + 1 \in 1..n
    BY <1>1
  <2>2. \A x \in Nat, v \in Int :
            (IF x < n THEN v + amount[x + 1] ELSE v) \in Int
    BY <1>1, <2>1
  <2>3. step \in [Nat \X Int -> Int]
    BY <2>2
  <2>4. 0 \in Int
    OBVIOUS
  <2> HIDE DEF step
  <2> QED
    BY <2>3, <2>4, PrimitiveRecursion, Zenon
<1> DEFINE sum == [i \in 0..n |-> f[i]]
<1>3. /\ f \in [Nat -> Int] /\ f[0] = 0
      /\ \A i \in Nat : i < n => f[i + 1] = f[i] + amount[i + 1]
  BY <1>2 DEF Recursive
<1>4. /\ sum \in [0..n -> Int] /\ sum[0] = 0
      /\ \A i \in Nat : i < n => sum[i + 1] = sum[i] + amount[i + 1]
  BY <1>1, <1>3
<1> HIDE DEF sum
<1>5. sum = body(sum)
  <2>1. ASSUME NEW i \in 0..n PROVE sum[i] = body(sum)[i]
    <3>1. CASE i = 0
      BY <1>4, <3>1
    <3>2. CASE i # 0
      <4>1. i - 1 \in Nat /\ i - 1 < n /\ (i - 1) + 1 = i
        BY <1>1, <3>2
      <4>2. sum[(i - 1) + 1] = sum[i - 1] + amount[(i - 1) + 1]
        BY <1>4, <4>1
      <4> QED
        BY <3>2, <4>1, <4>2
    <3> QED
      BY <3>1, <3>2
  <2> QED
    BY <1>4, <2>1
<1>6. total = body(total)
  BY <1>5
<1>7. SumOver(lines, amount) = total[n]
  BY DEF SumOver, n
<1> HIDE DEF total
<1>8. \A i \in 0..n : total[i] = IF i = 0 THEN 0 ELSE total[i - 1] + amount[i]
  BY <1>6
<1>9. Adds(total, lines, amount)
  <2> DEFINE S == {i \in Nat : i <= n => total[i] \in Int}
  <2>1. 0 \in S
    BY <1>1, <1>8
  <2>2. ASSUME NEW i \in Nat, i \in S PROVE i + 1 \in S
    <3>1. CASE i + 1 <= n
      <4>1. total[i] \in Int
        BY <1>1, <2>2, <3>1
      <4>2. i + 1 \in 0..n /\ i + 1 # 0 /\ (i + 1) - 1 = i
        BY <1>1, <3>1
      <4>3. total[i + 1] = total[i] + amount[i + 1]
        BY <1>8, <4>2
      <4> QED
        BY <1>1, <3>1, <4>1, <4>3
    <3> QED
      BY <3>1
  <2> HIDE DEF S
  <2>3. \A i \in Nat : i \in S
    BY <2>1, <2>2, InductionOnSet
  <2>4. \A i \in 0..n : total[i] \in Int
    BY <2>3 DEF S
  <2>5. total \in [0..n -> Int]
    BY <1>6, <2>4
  <2>6. \A i \in Nat : i < n => total[i + 1] = total[i] + amount[i + 1]
    <3> TAKE i \in Nat
    <3> HAVE i < n
    <3>1. i + 1 \in 0..n /\ i + 1 # 0 /\ (i + 1) - 1 = i
      BY <1>1
    <3> QED
      BY <1>8, <3>1
  <2>7. total[0] = 0
    BY <1>1, <1>8
  <2> QED
    BY <2>5, <2>6, <2>7 DEF Adds, n
<1> QED
  BY <1>7, <1>9 DEF n

LEMMA SumIsInteger ==
    ASSUME NEW lines \in Seq(Lines), NEW amount \in [DOMAIN lines -> Int]
    PROVE  SumOver(lines, amount) \in Int
<1>1. PICK sum : Adds(sum, lines, amount) /\ SumOver(lines, amount) = sum[Len(lines)]
  BY SumIsAddedUp
<1> QED
  BY <1>1 DEF Adds

(* Every c[i] is k times a[i] and b[i].                                    *)
Combines(lines, c, k, a, b) ==
    /\ a \in [DOMAIN lines -> Int] /\ b \in [DOMAIN lines -> Int]
    /\ c \in [DOMAIN lines -> Int] /\ k \in Int
    /\ \A i \in DOMAIN lines : c[i] = k * a[i] + b[i]

(* Then so is the sum of them.                                             *)
LEMMA SumIsLinear ==
    ASSUME NEW lines \in Seq(Lines), NEW c, NEW k, NEW a, NEW b,
           Combines(lines, c, k, a, b)
    PROVE  SumOver(lines, c) = k * SumOver(lines, a) + SumOver(lines, b)
<1>0. /\ a \in [DOMAIN lines -> Int] /\ b \in [DOMAIN lines -> Int]
      /\ c \in [DOMAIN lines -> Int] /\ k \in Int
      /\ \A i \in DOMAIN lines : c[i] = k * a[i] + b[i]
  BY DEF Combines
<1> DEFINE n == Len(lines)
<1>1. n \in Nat /\ DOMAIN lines = 1..n
  OBVIOUS
<1>2. PICK x : Adds(x, lines, a) /\ SumOver(lines, a) = x[n]
  BY <1>0, SumIsAddedUp
<1>3. PICK y : Adds(y, lines, b) /\ SumOver(lines, b) = y[n]
  BY <1>0, SumIsAddedUp
<1>4. PICK z : Adds(z, lines, c) /\ SumOver(lines, c) = z[n]
  BY <1>0, SumIsAddedUp
<1> HIDE DEF n
<1>5. /\ x \in [0..n -> Int] /\ y \in [0..n -> Int] /\ z \in [0..n -> Int]
      /\ x[0] = 0 /\ y[0] = 0 /\ z[0] = 0
      /\ \A i \in Nat : i < n => /\ x[i + 1] = x[i] + a[i + 1]
                                 /\ y[i + 1] = y[i] + b[i + 1]
                                 /\ z[i + 1] = z[i] + c[i + 1]
  BY <1>2, <1>3, <1>4 DEF Adds, n
<1> DEFINE S == {i \in Nat : i <= n => z[i] = k * x[i] + y[i]}
<1>6. 0 \in S
  <2>1. \A u \in Int : 0 = u * 0 + 0
    OBVIOUS
  <2>2. z[0] = k * x[0] + y[0]
    BY <1>0, <1>5, <2>1
  <2> QED
    BY <1>1, <2>2
<1>7. ASSUME NEW i \in Nat, i \in S PROVE i + 1 \in S
  <2> SUFFICES ASSUME i + 1 <= n PROVE z[i + 1] = k * x[i + 1] + y[i + 1]
    OBVIOUS
  <2>1. i \in 0..n /\ i + 1 \in 1..n /\ i < n
    BY <1>1
  <2>2. /\ x[i] \in Int /\ y[i] \in Int /\ a[i + 1] \in Int /\ b[i + 1] \in Int
    BY <1>0, <1>1, <1>5, <2>1
  <2>3. /\ z[i] = k * x[i] + y[i]
        /\ c[i + 1] = k * a[i + 1] + b[i + 1]
    <3>1. i <= n /\ i + 1 \in DOMAIN lines
      BY <1>1, <2>1
    <3>2. z[i] = k * x[i] + y[i]
      BY <1>7, <3>1, Zenon
    <3> QED
      BY <1>0, <3>1, <3>2, Zenon
  <2>4. /\ z[i + 1] = z[i] + c[i + 1]
        /\ x[i + 1] = x[i] + a[i + 1] /\ y[i + 1] = y[i] + b[i + 1]
    BY <1>5, <2>1
  <2>5. PICK u \in Int, v \in Int, w \in Int, t \in Int :
            u = x[i] /\ v = y[i] /\ w = a[i + 1] /\ t = b[i + 1]
    BY <2>2
  <2>6. (k * u + v) + (k * w + t) = k * (u + w) + (v + t)
    BY <1>0
  <2>7. z[i + 1] = (k * u + v) + (k * w + t)
    BY <2>3, <2>4, <2>5, Zenon
  <2>8. x[i + 1] = u + w /\ y[i + 1] = v + t
    BY <2>4, <2>5, Zenon
  <2> QED
    BY <2>6, <2>7, <2>8, Zenon
<1> HIDE DEF S
<1>8. n \in S
  BY <1>1, <1>6, <1>7, InductionOnSet
<1> QED
  BY <1>1, <1>2, <1>3, <1>4, <1>8 DEF S

LEMMA SumOfZeros ==
    ASSUME NEW lines \in Seq(Lines)
    PROVE  SumOver(lines, [i \in DOMAIN lines |-> 0]) = 0
<1> DEFINE zeros == [i \in DOMAIN lines |-> 0]
<1>1. zeros \in [DOMAIN lines -> Int] /\ 1 \in Int
  OBVIOUS
<1>2. Combines(lines, zeros, 1, zeros, zeros)
  BY <1>1 DEF Combines
<1> HIDE DEF zeros
<1>3. SumOver(lines, zeros) = 1 * SumOver(lines, zeros) + SumOver(lines, zeros)
  BY <1>1, <1>2, SumIsLinear
<1>4. SumOver(lines, zeros) \in Int
  BY <1>1, SumIsInteger
<1> QED
  BY <1>3, <1>4 DEF zeros

-----------------------------------------------------------------------------
(* The accumulators of assemble.                                           *)

(* What the lines of a rate contribute.                                    *)
NetOf(lines, rate) ==
    [i \in DOMAIN lines |-> IF lines[i].rate = rate THEN Net(lines[i]) ELSE 0]
VatOf(lines, rate) ==
    [i \in DOMAIN lines |-> IF lines[i].rate = rate THEN Vat(lines[i]) ELSE 0]

(* What the lines contribute that have none of the rates.                  *)
GrossBut(lines, rates) ==
    [i \in DOMAIN lines |-> IF lines[i].rate \in rates THEN 0 ELSE Gross(lines[i])]

LEMMA LineAmounts ==
    ASSUME NEW line \in Lines
    PROVE  /\ Net(line) \in Int /\ vatRatePercent(line.rate) \in Int
           /\ Vat(line) = vatRatePercent(line.rate) * Net(line)
           /\ Vat(line) \in Int
           /\ Gross(line) = 100 * Net(line) + Vat(line) /\ Gross(line) \in Int
<1>1. Net(line) \in Int
  BY InputsAreTyped DEF Net
<1>2. vatRatePercent(line.rate) \in Int
  <2>1. CASE line.rate \in Stawki
    BY <2>1 DEF Stawki, vatRatePercent
  <2>2. CASE line.rate \notin Stawki
    <3>1. line.rate \in DOMAIN ParsedRates
      BY <2>2, OtherRatesAreParsed
    <3>2. ParsedRates[line.rate] \in Int
      BY <3>1, OtherRatesAreParsed
    <3>3. vatRatePercent(line.rate) = ParsedRates[line.rate]
      BY <2>2 DEF Stawki, vatRatePercent
    <3> QED
      BY <3>2, <3>3
  <2> QED
    BY <2>1, <2>2
<1> HIDE DEF vatRatePercent
<1>3. Vat(line) = Net(line) * vatRatePercent(line.rate)
  BY DEF Vat
<1> QED
  BY <1>1, <1>2, <1>3 DEF Gross

LEMMA AccumulatorTypes ==
    ASSUME NEW lines \in Seq(Lines), NEW rate, NEW rates
    PROVE  /\ NetOf(lines, rate) \in [DOMAIN lines -> Int]
           /\ VatOf(lines, rate) \in [DOMAIN lines -> Int]
           /\ GrossBut(lines, rates) \in [DOMAIN lines -> Int]
           /\ vatBases(lines, rate) = SumOver(lines, NetOf(lines, rate))
           /\ vatAmounts(lines, rate) = SumOver(lines, VatOf(lines, rate))
           /\ vatBases(lines, rate) \in Int /\ vatAmounts(lines, rate) \in Int
           /\ SumOver(lines, GrossBut(lines, rates)) \in Int
<1>1. \A i \in DOMAIN lines : lines[i] \in Lines
  OBVIOUS
<1>2. /\ NetOf(lines, rate) \in [DOMAIN lines -> Int]
      /\ VatOf(lines, rate) \in [DOMAIN lines -> Int]
      /\ GrossBut(lines, rates) \in [DOMAIN lines -> Int]
  BY <1>1, LineAmounts DEF NetOf, VatOf, GrossBut
<1>3. /\ vatBases(lines, rate) = SumOver(lines, NetOf(lines, rate))
      /\ vatAmounts(lines, rate) = SumOver(lines, VatOf(lines, rate))
  BY DEF vatBases, vatAmounts, NetOf, VatOf
<1> QED
  BY <1>2, <1>3, SumIsInteger

(* The VAT accumulated for a rate is that rate of the net sum, exactly,    *)
(* however many lines it is spread over.                                   *)
LEMMA VatIsPercentOfBase ==
    ASSUME NEW lines \in Seq(Lines), NEW rate \in Stawki
    PROVE  vatAmounts(lines, rate) = vatRatePercent(rate) * vatBases(lines, rate)
<1> DEFINE zeros == [i \in DOMAIN lines |-> 0]
           pct == vatRatePercent(rate)
<1>1. pct \in Int
  BY DEF vatRatePercent, Stawki
<1>2. \A i \in DOMAIN lines :
          VatOf(lines, rate)[i] = pct * NetOf(lines, rate)[i] + zeros[i]
  <2> TAKE i \in DOMAIN lines
  <2>1. CASE lines[i].rate = rate
    <3>1. lines[i] \in Lines
      OBVIOUS
    <3>2. Vat(lines[i]) = pct * Net(lines[i]) /\ Vat(lines[i]) \in Int
      BY <2>1, <3>1, LineAmounts
    <3> HIDE DEF pct
    <3> QED
      BY <2>1, <3>2 DEF NetOf, VatOf
  <2>2. CASE lines[i].rate # rate
    <3> HIDE DEF pct
    <3> QED
      BY <1>1, <2>2 DEF NetOf, VatOf
  <2> QED
    BY <2>1, <2>2
<1>3. zeros \in [DOMAIN lines -> Int]
  OBVIOUS
<1>4. SumOver(lines, zeros) = 0
  BY SumOfZeros
<1> HIDE DEF zeros, pct
<1>5. SumOver(lines, VatOf(lines, rate))
        = pct * SumOver(lines, NetOf(lines, rate)) + SumOver(lines, zeros)
  <2>1. Combines(lines, VatOf(lines, rate), pct, NetOf(lines, rate), zeros)
    BY <1>1, <1>2, <1>3, AccumulatorTypes DEF Combines
  <2> QED
    BY <2>1, SumIsLinear
<1>6. vatAmounts(lines, rate) = pct * vatBases(lines, rate) + 0
  BY <1>4, <1>5, AccumulatorTypes
<1>7. pct * vatBases(lines, rate) \in Int
  BY <1>1, AccumulatorTypes
<1> QED
  BY <1>6, <1>7 DEF pct

(* Taking one more rate out of the gross sum leaves out its net and VAT.   *)
LEMMA GrossSplits ==
    ASSUME NEW lines \in Seq(Lines), NEW rates, NEW rate, rate \notin rates
    PROVE  SumOver(lines, GrossBut(lines, rates))
             = 100 * vatBases(lines, rate) + vatAmounts(lines, rate)
               + SumOver(lines, GrossBut(lines, rates \cup {rate}))
<1> DEFINE net == NetOf(lines, rate)
           vat == VatOf(lines, rate)
           all == GrossBut(lines, rates)
           rest == GrossBut(lines, rates \cup {rate})
           both == [i \in DOMAIN lines |-> vat[i] + rest[i]]
<1>1. /\ net \in [DOMAIN lines -> Int] /\ vat \in [DOMAIN lines -> Int]
      /\ all \in [DOMAIN lines -> Int] /\ rest \in [DOMAIN lines -> Int]
  BY AccumulatorTypes
<1>2. \A i \in DOMAIN lines : all[i] = 100 * net[i] + (vat[i] + rest[i])
  <2> TAKE i \in DOMAIN lines
  <2>1. lines[i] \in Lines
    OBVIOUS
  <2>2. /\ Gross(lines[i]) = 100 * Net(lines[i]) + Vat(lines[i])
        /\ Net(lines[i]) \in Int /\ Vat(lines[i]) \in Int
        /\ Gross(lines[i]) \in Int
    BY <2>1, LineAmounts
  <2> QED
    BY <2>2 DEF GrossBut, NetOf, VatOf
<1>3. /\ vatBases(lines, rate) = SumOver(lines, net)
      /\ vatAmounts(lines, rate) = SumOver(lines, vat)
  BY AccumulatorTypes
<1> HIDE DEF net, vat, all, rest
<1>4. both \in [DOMAIN lines -> Int]
  BY <1>1
<1>5. /\ Combines(lines, both, 1, vat, rest)
      /\ Combines(lines, all, 100, net, both)
  BY <1>1, <1>2, <1>4 DEF Combines
<1> HIDE DEF both
<1>6. SumOver(lines, both) = 1 * SumOver(lines, vat) + SumOver(lines, rest)
  BY <1>5, SumIsLinear
<1>7. SumOver(lines, all) = 100 * SumOver(lines, net) + SumOver(lines, both)
  BY <1>5, SumIsLinear
<1>8. SumOver(lines, net) \in Int /\ SumOver(lines, vat) \in Int
      /\ SumOver(lines, rest) \in Int
  BY <1>1, SumIsInteger
<1>9. SumOver(lines, all)
        = 100 * vatBases(lines, rate) + vatAmounts(lines, rate)
          + SumOver(lines, rest)
  BY <1>3, <1>6, <1>7, <1>8
<1> QED
  BY <1>9 DEF all, rest
-----------------------------------------------------------------------------
(* The summary.                                                            *)

LEMMA FormattedIsClose ==
    ASSUME NEW sum \in Int, NEW g \in Formatted(sum)
    PROVE  g \in Int /\ sum - 50 <= 100 * g /\ 100 * g <= sum + 50
  BY DEF Formatted

(* A rate that no line has adds up to nothing.                             *)
LEMMA NoLinesNoSum ==
    ASSUME NEW lines \in Seq(Lines), NEW rate, WithRate(lines, rate) = {}
    PROVE  vatBases(lines, rate) = 0 /\ vatAmounts(lines, rate) = 0
<1>1. \A i \in DOMAIN lines : lines[i].rate # rate
  BY DEF WithRate
<1>2. /\ NetOf(lines, rate) = [i \in DOMAIN lines |-> 0]
      /\ VatOf(lines, rate) = [i \in DOMAIN lines |-> 0]
  BY <1>1 DEF NetOf, VatOf
<1> QED
  BY <1>2, SumOfZeros, AccumulatorTypes

LEMMA RateOfFields ==
    ASSUME NEW lines
    PROVE  /\ RateOf("P_13_1", lines) = "23" /\ RateOf("P_14_1", lines) = "23"
           /\ RateOf("P_13_2", lines) = "8"  /\ RateOf("P_14_2", lines) = "8"
           /\ RateOf("P_13_3", lines) = "5"  /\ RateOf("P_14_3", lines) = "5"
           /\ RateOf("P_13_6_1", lines) = "0" /\ RateOf("P_13_7", lines) = "ZW"
           /\ RateOf("P_13_8", lines) \in {"OO", "NP"}
  BY DEF RateOf

(* VAT amounts as Build formats them.                                      *)
VATOf(lines, vat) == \A r \in TaxedRates : vat[r] \in Formatted(vatAmounts(lines, r))

(* The fields of the summary of some lines: a net sum, or a VAT amount     *)
(* within half a grosz of the exact one; nothing if no line has the rate.  *)
LEMMA SummaryField ==
    ASSUME NEW lines \in Seq(Lines), NEW vat, VATOf(lines, vat), NEW f \in Fields
    PROVE  LET rate  == RateOf(f, lines)
               value == populateVATSummary(lines, vat)[f]
               exact == IF f \in VATFields THEN vatAmounts(lines, rate)
                        ELSE 100 * vatBases(lines, rate)
           IN  /\ exact \in Int
               /\ value = Absent => exact = 0
               /\ value # Absent => value \in Int
               /\ value # Absent /\ f \in VATFields =>
                     exact - 50 <= 100 * value /\ 100 * value <= exact + 50
               /\ value # Absent /\ f \notin VATFields => 100 * value = exact
<1> DEFINE rate  == RateOf(f, lines)
           value == populateVATSummary(lines, vat)[f]
<1>1. value = IF WithRate(lines, rate) = {} THEN Absent
              ELSE IF f \in VATFields THEN vat[rate]
              ELSE vatBases(lines, rate)
  BY DEF populateVATSummary, FieldValue
<1>2. f \in VATFields => rate \in TaxedRates
  BY RateOfFields DEF VATFields, TaxedRates
<1> HIDE DEF rate, value
<1>3. vatBases(lines, rate) \in Int /\ vatAmounts(lines, rate) \in Int
  BY AccumulatorTypes
<1>4. CASE WithRate(lines, rate) = {}
  <2>1. vatBases(lines, rate) = 0 /\ vatAmounts(lines, rate) = 0
    BY <1>4, NoLinesNoSum
  <2> QED
    BY <1>1, <1>4, <2>1 DEF rate, value
<1>5. CASE WithRate(lines, rate) # {} /\ f \in VATFields
  <2>1. value = vat[rate] /\ vat[rate] \in Formatted(vatAmounts(lines, rate))
    BY <1>1, <1>2, <1>5 DEF VATOf
  <2>2. /\ value \in Int /\ vatAmounts(lines, rate) - 50 <= 100 * value
        /\ 100 * value <= vatAmounts(lines, rate) + 50
    BY <1>3, <2>1, FormattedIsClose
  <2> QED
    BY <1>3, <1>5, <2>2, NilIsNoAmount DEF rate, value
<1>6. CASE WithRate(lines, rate) # {} /\ f \notin VATFields
  BY <1>1, <1>3, <1>6, NilIsNoAmount DEF rate, value
<1> QED
  BY <1>4, <1>5, <1>6

LEMMA SummaryType ==
    ASSUME NEW lines \in Seq(Lines), NEW vat, VATOf(lines, vat)
    PROVE  populateVATSummary(lines, vat) \in [Fields -> Int \cup {Absent}]
<1>1. \A f \in Fields : populateVATSummary(lines, vat)[f] \in Int \cup {Absent}
  BY SummaryField
<1>2. populateVATSummary(lines, vat)
        = [f \in Fields |-> populateVATSummary(lines, vat)[f]]
  BY DEF populateVATSummary
<1> QED
  BY <1>1, <1>2

LEMMA GrossTotal ==
    ASSUME NEW lines \in Seq(Lines)
    PROVE  /\ grossTotal(lines) \in Int
           /\ grossTotal(lines) = SumOver(lines, GrossBut(lines, {}))
<1>1. GrossBut(lines, {}) = [i \in DOMAIN lines |-> Gross(lines[i])]
  BY DEF GrossBut
<1> QED
  BY <1>1, AccumulatorTypes DEF grossTotal

-----------------------------------------------------------------------------
(* What Build returns.                                                     *)

(* The amounts of an invoice are those of its lines.                       *)
AmountsOf(f) ==
    /\ f.FaWiersz \in Seq(Lines)
    /\ f.P_15 \in Formatted(grossTotal(f.FaWiersz))
    /\ \E vat : /\ VATOf(f.FaWiersz, vat)
                /\ f.summary = populateVATSummary(f.FaWiersz, vat)

DocumentInv == items \in Seq(Lines) /\ (Built => AmountsOf(invoice))

LEMMA InitDocument == Init => DocumentInv
<1> SUFFICES ASSUME Init PROVE DocumentInv
  OBVIOUS
<1>1. items = <<>> /\ ~Built
  BY DEF Init, Built
<1> QED
  BY <1>1 DEF DocumentInv

LEMMA StepDocument == DocumentInv /\ [Next]_vars => DocumentInv'
<1> SUFFICES ASSUME DocumentInv, [Next]_vars PROVE DocumentInv'
  OBVIOUS
<1>1. CASE Build
  <2>1. PICK vat \in FormattedVAT, gross \in Formatted(grossTotal(items)) :
            invoice' = assemble(vat, gross)
    BY <1>1 DEF Build
  <2>2. items' = items
    BY <1>1 DEF Build
  <2>3. /\ invoice'.FaWiersz = items /\ invoice'.P_15 = gross
        /\ invoice'.summary = populateVATSummary(items, vat)
    BY <2>1 DEF assemble
  <2>4. VATOf(items, vat)
    BY <2>1 DEF FormattedVAT, VATOf
  <2>5. AmountsOf(invoice')
    BY <2>1, <2>3, <2>4 DEF AmountsOf, DocumentInv
  <2> QED
    BY <2>2, <2>5 DEF DocumentInv, Built
<1>2. CASE AddItem
  <2>1. items' \in Seq(Lines) /\ invoice' = invoice
    BY <1>2 DEF AddItem, DocumentInv
  <2> QED
    BY <2>1 DEF DocumentInv, Built
<1>3. CASE ~Build /\ ~AddItem
  <2>1. items' = items /\ invoice' = invoice
    BY <1>3 DEF Next, SetSeller, SetBuyer, StoreBuyer, SetInvoiceNumber,
                SetDates, SetPayment, SetCurrency, BuildRejects, header, vars
  <2> QED
    BY <2>1 DEF DocumentInv, Built
<1> QED
  BY <1>1, <1>2, <1>3

LEMMA DocumentIsInvariant == Spec => []DocumentInv
  BY InitDocument, StepDocument, PTL DEF Spec

(* What the fields of a built invoice add to its summary.                  *)
LEMMA AmountOfField ==
    ASSUME DocumentInv, Built, NEW f \in Fields
    PROVE  LET lines == invoice.FaWiersz
               rate  == RateOf(f, lines)
           IN  /\ Amount(f) \in Int
               /\ vatBases(lines, rate) \in Int /\ vatAmounts(lines, rate) \in Int
               /\ f \notin VATFields => Amount(f) = vatBases(lines, rate)
               /\ f \in VATFields =>
                     /\ vatAmounts(lines, rate) - 50 <= 100 * Amount(f)
                     /\ 100 * Amount(f) <= vatAmounts(lines, rate) + 50
                     /\ invoice.summary[f] = Absent =>
                           100 * Amount(f) = vatAmounts(lines, rate)
<1> DEFINE lines == invoice.FaWiersz
           rate  == RateOf(f, lines)
           base  == vatBases(lines, rate)
           exact == vatAmounts(lines, rate)
           value == invoice.summary[f]
<1>1. lines \in Seq(Lines)
  BY DEF DocumentInv, AmountsOf
<1>2. base \in Int /\ exact \in Int
  BY <1>1, AccumulatorTypes
<1>3. /\ value = Absent =>
            IF f \in VATFields THEN exact = 0 ELSE 100 * base = 0
      /\ value # Absent => value \in Int
      /\ value # Absent /\ f \in VATFields =>
            exact - 50 <= 100 * value /\ 100 * value <= exact + 50
      /\ value # Absent /\ f \notin VATFields => 100 * value = 100 * base
  <2>1. PICK vat : VATOf(lines, vat) /\ invoice.summary = populateVATSummary(lines, vat)
    BY DEF DocumentInv, AmountsOf
  <2> QED
    BY <1>1, <2>1, SummaryField
<1>4. Amount(f) = IF value = Absent THEN 0 ELSE value
  BY DEF Amount
<1> HIDE DEF lines, rate, base, exact, value
<1>5. /\ Amount(f) \in Int
      /\ f \notin VATFields => Amount(f) = base
      /\ f \in VATFields => /\ exact - 50 <= 100 * Amount(f)
                            /\ 100 * Amount(f) <= exact + 50
                            /\ value = Absent => 100 * Amount(f) = exact
  BY <1>2, <1>3, <1>4
<1> QED
  BY <1>2, <1>5 DEF lines, rate, base, exact, value
-----------------------------------------------------------------------------
(* The VAT of a rate is that percentage of its net sum, to half a grosz,   *)
(* however many lines it is spread over (builder.go:157-162, 282-287,      *)
(* types.go:347-360).                                                      *)
THEOREM VATIsOfTheBaseThm == Spec => []VATIsOfTheBase
<1>1. ASSUME DocumentInv, Built, NEW net \in Fields \ VATFields,
             NEW tax \in VATFields, NEW rate \in Stawki,
             RateOf(tax, invoice.FaWiersz) = rate,
             RateOf(net, invoice.FaWiersz) = rate
      PROVE  Abs(100 * Amount(tax) - vatRatePercent(rate) * Amount(net)) <= 50
  <2> DEFINE lines == invoice.FaWiersz
             exact == vatAmounts(lines, rate)
  <2>1. lines \in Seq(Lines)
    BY <1>1 DEF DocumentInv, AmountsOf
  <2>2. net \in Fields /\ net \notin VATFields /\ tax \in Fields /\ tax \in VATFields
    BY DEF Fields, VATFields
  <2>3. Amount(net) = vatBases(lines, rate)
    BY <1>1, <2>2, AmountOfField
  <2>4. /\ Amount(tax) \in Int /\ exact \in Int
        /\ exact - 50 <= 100 * Amount(tax) /\ 100 * Amount(tax) <= exact + 50
    BY <1>1, <2>2, AmountOfField
  <2>5. exact = vatRatePercent(rate) * Amount(net)
    BY <2>1, <2>3, VatIsPercentOfBase
  <2> HIDE DEF exact
  <2>6. Abs(100 * Amount(tax) - exact) <= 50
    BY <2>4 DEF Abs
  <2> QED
    BY <2>5, <2>6
<1>2. DocumentInv => VATIsOfTheBase
  <2> SUFFICES ASSUME DocumentInv, Built
               PROVE  /\ Abs(100 * Amount("P_14_1") - 23 * Amount("P_13_1")) <= 50
                      /\ Abs(100 * Amount("P_14_2") - 8 * Amount("P_13_2")) <= 50
                      /\ Abs(100 * Amount("P_14_3") - 5 * Amount("P_13_3")) <= 50
    BY DEF VATIsOfTheBase
  <2>1. /\ {"P_13_1", "P_13_2", "P_13_3"} \subseteq Fields \ VATFields
        /\ {"P_14_1", "P_14_2", "P_14_3"} \subseteq VATFields
        /\ {"23", "8", "5"} \subseteq Stawki
    BY DEF Fields, VATFields, Stawki
  <2>2. /\ vatRatePercent("23") = 23 /\ vatRatePercent("8") = 8
        /\ vatRatePercent("5") = 5
    BY DEF vatRatePercent
  <2>3. Abs(100 * Amount("P_14_1") - 23 * Amount("P_13_1")) <= 50
    BY <1>1, <2>1, <2>2, RateOfFields
  <2>4. Abs(100 * Amount("P_14_2") - 8 * Amount("P_13_2")) <= 50
    BY <1>1, <2>1, <2>2, RateOfFields
  <2>5. Abs(100 * Amount("P_14_3") - 5 * Amount("P_13_3")) <= 50
    BY <1>1, <2>1, <2>2, RateOfFields
  <2> QED
    BY <2>3, <2>4, <2>5
<1> QED
  BY <1>2, DocumentIsInvariant, PTL

-----------------------------------------------------------------------------
(* The gross total of an invoice.                                          *)

(* The rates that the fields of the summary are about.                     *)
LEMMA CoveredRates ==
    ASSUME NEW lines
    PROVE  {RateOf(f, lines) : f \in Fields}
             = {"23", "8", "5", "0", "ZW", RateOf("P_13_8", lines)}
<1>1. \A f \in Fields : RateOf(f, lines) \in
          {"23", "8", "5", "0", "ZW", RateOf("P_13_8", lines)}
  BY RateOfFields DEF Fields
<1>2. \A r \in {"23", "8", "5", "0", "ZW", RateOf("P_13_8", lines)} :
          \E f \in Fields : RateOf(f, lines) = r
  BY RateOfFields DEF Fields
<1> QED
  BY <1>1, <1>2

(* The gross sum, split into the fields of the summary and the rest.       *)
LEMMA GrossByField ==
    ASSUME NEW lines \in Seq(Lines)
    PROVE  LET last == RateOf("P_13_8", lines)
           IN  grossTotal(lines)
                 = 100 * (vatBases(lines, "23") + vatBases(lines, "8")
                          + vatBases(lines, "5") + vatBases(lines, "0")
                          + vatBases(lines, "ZW") + vatBases(lines, last))
                   + vatAmounts(lines, "23") + vatAmounts(lines, "8")
                   + vatAmounts(lines, "5")
                   + SumOver(lines, GrossBut(lines, {RateOf(f, lines) : f \in Fields}))
<1> DEFINE last == RateOf("P_13_8", lines)
           left(rates) == SumOver(lines, GrossBut(lines, rates))
           R1 == {} \cup {"23"}
           R2 == R1 \cup {"8"}
           R3 == R2 \cup {"5"}
           R4 == R3 \cup {"0"}
           R5 == R4 \cup {"ZW"}
           R6 == R5 \cup {last}
<1>1. /\ "23" \notin {} /\ "8" \notin R1 /\ "5" \notin R2 /\ "0" \notin R3
      /\ "ZW" \notin R4 /\ last \notin R5
  BY RateOfFields
<1>2. R6 = {RateOf(f, lines) : f \in Fields}
  BY CoveredRates
<1>3. /\ vatRatePercent("0") = 0 /\ vatRatePercent("ZW") = 0
      /\ vatRatePercent(last) = 0 /\ last \in {"OO", "NP"}
  BY RateOfFields DEF vatRatePercent
<1> HIDE DEF last
<1>4. \A r : vatBases(lines, r) \in Int /\ vatAmounts(lines, r) \in Int
  BY AccumulatorTypes
<1>5. /\ vatAmounts(lines, "0") = 0 /\ vatAmounts(lines, "ZW") = 0
      /\ vatAmounts(lines, last) = 0
  <2>1. ASSUME NEW r \in Stawki, vatRatePercent(r) = 0
        PROVE  vatAmounts(lines, r) = 0
    <3>1. vatAmounts(lines, r) = 0 * vatBases(lines, r)
      BY <2>1, VatIsPercentOfBase
    <3> QED
      BY <1>4, <3>1
  <2> QED
    BY <1>3, <2>1 DEF Stawki
<1>6. ASSUME NEW rates, NEW r, r \notin rates
      PROVE  left(rates) = 100 * vatBases(lines, r) + vatAmounts(lines, r)
                           + left(rates \cup {r})
  BY <1>6, GrossSplits
<1>7. \A rates : left(rates) \in Int
  BY AccumulatorTypes
<1>8. grossTotal(lines) = left({})
  BY GrossTotal
<1> HIDE DEF left
<1>9. /\ left({}) = 100 * vatBases(lines, "23") + vatAmounts(lines, "23") + left(R1)
      /\ left(R1) = 100 * vatBases(lines, "8") + vatAmounts(lines, "8") + left(R2)
      /\ left(R2) = 100 * vatBases(lines, "5") + vatAmounts(lines, "5") + left(R3)
      /\ left(R3) = 100 * vatBases(lines, "0") + vatAmounts(lines, "0") + left(R4)
      /\ left(R4) = 100 * vatBases(lines, "ZW") + vatAmounts(lines, "ZW") + left(R5)
      /\ left(R5) = 100 * vatBases(lines, last) + vatAmounts(lines, last) + left(R6)
  <2>1. left({}) = 100 * vatBases(lines, "23") + vatAmounts(lines, "23") + left(R1)
    BY <1>1, <1>6
  <2>2. left(R1) = 100 * vatBases(lines, "8") + vatAmounts(lines, "8") + left(R2)
    <3> HIDE DEF R1
    <3> QED
      BY <1>1, <1>6
  <2>3. left(R2) = 100 * vatBases(lines, "5") + vatAmounts(lines, "5") + left(R3)
    <3> HIDE DEF R2
    <3> QED
      BY <1>1, <1>6
  <2>4. left(R3) = 100 * vatBases(lines, "0") + vatAmounts(lines, "0") + left(R4)
    <3> HIDE DEF R3
    <3> QED
      BY <1>1, <1>6
  <2>5. left(R4) = 100 * vatBases(lines, "ZW") + vatAmounts(lines, "ZW") + left(R5)
    <3> HIDE DEF R4
    <3> QED
      BY <1>1, <1>6
  <2>6. left(R5) = 100 * vatBases(lines, last) + vatAmounts(lines, last) + left(R6)
    <3> HIDE DEF R5
    <3> QED
      BY <1>1, <1>6
  <2> QED
    BY <2>1, <2>2, <2>3, <2>4, <2>5, <2>6
<1> HIDE DEF R1, R2, R3, R4, R5, R6
<1>10. grossTotal(lines)
         = 100 * (vatBases(lines, "23") + vatBases(lines, "8")
                  + vatBases(lines, "5") + vatBases(lines, "0")
                  + vatBases(lines, "ZW") + vatBases(lines, last))
           + vatAmounts(lines, "23") + vatAmounts(lines, "8")
           + vatAmounts(lines, "5") + left(R6)
  <2> DEFINE b1 == vatBases(lines, "23")   v1 == vatAmounts(lines, "23")
             b2 == vatBases(lines, "8")    v2 == vatAmounts(lines, "8")
             b3 == vatBases(lines, "5")    v3 == vatAmounts(lines, "5")
             b4 == vatBases(lines, "0")
             b5 == vatBases(lines, "ZW")
             b6 == vatBases(lines, last)
             l0 == left({})  l1 == left(R1)  l2 == left(R2)  l3 == left(R3)
             l4 == left(R4)  l5 == left(R5)  l6 == left(R6)
  <2>1. /\ b1 \in Int /\ b2 \in Int /\ b3 \in Int
        /\ b4 \in Int /\ b5 \in Int /\ b6 \in Int
        /\ v1 \in Int /\ v2 \in Int /\ v3 \in Int
    BY <1>4
  <2>2. /\ l0 \in Int /\ l1 \in Int /\ l2 \in Int /\ l3 \in Int
        /\ l4 \in Int /\ l5 \in Int /\ l6 \in Int
    BY <1>7
  <2>3. /\ l0 = 100 * b1 + v1 + l1
        /\ l1 = 100 * b2 + v2 + l2
        /\ l2 = 100 * b3 + v3 + l3
        /\ l3 = 100 * b4 + 0 + l4
        /\ l4 = 100 * b5 + 0 + l5
        /\ l5 = 100 * b6 + 0 + l6
    BY <1>5, <1>9, Zenon
  <2> HIDE DEF b1, b2, b3, b4, b5, b6, v1, v2, v3, l0, l1, l2, l3, l4, l5, l6
  <2>4. l0 = 100 * (b1 + b2 + b3 + b4 + b5 + b6) + v1 + v2 + v3 + l6
    BY <2>1, <2>2, <2>3
  <2> QED
    BY <1>8, <2>4, Zenon
       DEF b1, b2, b3, b4, b5, b6, v1, v2, v3, l0, l6
<1> QED
  BY <1>2, <1>10 DEF last, left

(* The lines left out are those whose rate no field is about: if there are *)
(* no NP lines, P_13_8 is about OO, and NP contributes nothing.            *)
LEMMA LeftOutIsTheRest ==
    ASSUME invoice.FaWiersz \in Seq(Lines)
    PROVE  LET lines == invoice.FaWiersz
           IN  LeftOut = SumOver(lines, GrossBut(lines, {RateOf(f, lines) : f \in Fields}))
<1> DEFINE lines    == invoice.FaWiersz
           replaced == IF WithRate(lines, "NP") = {} THEN {} ELSE {"OO"}
           covered  == {RateOf(f, lines) : f \in Fields}
<1>1. covered = {"23", "8", "5", "0", "ZW", RateOf("P_13_8", lines)}
  BY CoveredRates
<1>2. RateOf("P_13_8", lines) = IF WithRate(lines, "NP") # {} THEN "NP" ELSE "OO"
  BY DEF RateOf
<1> HIDE DEF covered
<1>3. ASSUME NEW i \in DOMAIN lines
      PROVE  lines[i].rate \in RatesWithField \ replaced <=> lines[i].rate \in covered
  <2>1. CASE WithRate(lines, "NP") = {}
    <3>1. lines[i].rate # "NP"
      BY <2>1 DEF WithRate
    <3> QED
      BY <1>1, <1>2, <2>1, <3>1 DEF RatesWithField
  <2>2. CASE WithRate(lines, "NP") # {}
    BY <1>1, <1>2, <2>2 DEF RatesWithField
  <2> QED
    BY <2>1, <2>2
<1>4. GrossBut(lines, RatesWithField \ replaced) = GrossBut(lines, covered)
  BY <1>3 DEF GrossBut
<1>5. LeftOut = SumOver(lines, GrossBut(lines, RatesWithField \ replaced))
  BY DEF LeftOut, GrossBut
<1> QED
  BY <1>4, <1>5 DEF covered

(* How many VAT amounts an invoice shows.                                  *)
LEMMA CountOfVAT ==
    ASSUME NEW shown
    PROVE  Cardinality({f \in VATFields : f \in shown})
             = (IF "P_14_1" \in shown THEN 1 ELSE 0)
               + (IF "P_14_2" \in shown THEN 1 ELSE 0)
               + (IF "P_14_3" \in shown THEN 1 ELSE 0)
<1> DEFINE S1 == IF "P_14_1" \in shown THEN {"P_14_1"} ELSE {}
           S2 == IF "P_14_2" \in shown THEN S1 \cup {"P_14_2"} ELSE S1
           S3 == IF "P_14_3" \in shown THEN S2 \cup {"P_14_3"} ELSE S2
<1>1. {f \in VATFields : f \in shown} = S3
  BY DEF VATFields
<1>2. IsFiniteSet(S1) /\ Cardinality(S1) = IF "P_14_1" \in shown THEN 1 ELSE 0
  BY FS_Singleton, FS_EmptySet
<1>3. "P_14_2" \notin S1 /\ "P_14_3" \notin S2
  OBVIOUS
<1> HIDE DEF S1
<1>4. /\ IsFiniteSet(S2) /\ Cardinality(S2) \in Nat
      /\ Cardinality(S2) = Cardinality(S1) + (IF "P_14_2" \in shown THEN 1 ELSE 0)
  <2>1. Cardinality(S1) \in Nat
    BY <1>2
  <2>2. CASE "P_14_2" \in shown
    BY <1>2, <1>3, <2>1, <2>2, FS_AddElement
  <2>3. CASE "P_14_2" \notin shown
    BY <1>2, <2>1, <2>3
  <2> QED
    BY <2>2, <2>3
<1> HIDE DEF S2
<1>5. Cardinality(S3) = Cardinality(S2) + (IF "P_14_3" \in shown THEN 1 ELSE 0)
  <2>1. CASE "P_14_3" \in shown
    BY <1>3, <1>4, <2>1, FS_AddElement
  <2>2. CASE "P_14_3" \notin shown
    BY <1>4, <2>2
  <2> QED
    BY <2>1, <2>2
<1> HIDE DEF S3
<1> QED
  BY <1>1, <1>2, <1>4, <1>5

(* Every line with a rate that has a field is in the summary, once: the    *)
(* gross total is what the summary adds up to and the lines left out, but  *)
(* for the roundings, half a grosz for the total and for each VAT amount   *)
(* shown (builder.go:157-170, 271-302).                                    *)
THEOREM SummaryReconcilesThm == Spec => []SummaryReconciles
<1>1. ASSUME DocumentInv, Built
      PROVE  Abs(100 * (invoice.P_15 - SummaryTotal) - LeftOut)
               <= 50 * (1 + Cardinality({f \in VATFields : invoice.summary[f] # Absent}))
  <2> DEFINE lines == invoice.FaWiersz
             last  == RateOf("P_13_8", lines)
             shown == {f \in VATFields : invoice.summary[f] # Absent}
             n1 == IF "P_14_1" \in shown THEN 1 ELSE 0
             n2 == IF "P_14_2" \in shown THEN 1 ELSE 0
             n3 == IF "P_14_3" \in shown THEN 1 ELSE 0
             b1 == vatBases(lines, "23")   v1 == vatAmounts(lines, "23")
             b2 == vatBases(lines, "8")    v2 == vatAmounts(lines, "8")
             b3 == vatBases(lines, "5")    v3 == vatAmounts(lines, "5")
             b4 == vatBases(lines, "0")
             b5 == vatBases(lines, "ZW")
             b6 == vatBases(lines, last)
             t1 == Amount("P_14_1")
             t2 == Amount("P_14_2")
             t3 == Amount("P_14_3")
             total == invoice.P_15
             exact == grossTotal(lines)
             rest  == LeftOut
  <2>1. lines \in Seq(Lines) /\ total \in Formatted(exact)
    BY <1>1 DEF DocumentInv, AmountsOf
  <2>2. rest = SumOver(lines, GrossBut(lines, {RateOf(f, lines) : f \in Fields}))
    BY <2>1, LeftOutIsTheRest
  <2>3. exact \in Int /\ rest \in Int
    BY <2>1, <2>2, GrossTotal, AccumulatorTypes
  <2>4. total \in Int /\ exact - 50 <= 100 * total /\ 100 * total <= exact + 50
    BY <2>1, <2>3, FormattedIsClose
  <2>5. /\ b1 \in Int /\ b2 \in Int /\ b3 \in Int
        /\ b4 \in Int /\ b5 \in Int /\ b6 \in Int
        /\ v1 \in Int /\ v2 \in Int /\ v3 \in Int
    BY <2>1, AccumulatorTypes
  <2>6. exact = 100 * (b1 + b2 + b3 + b4 + b5 + b6) + v1 + v2 + v3 + rest
    BY <2>1, <2>2, GrossByField
  <2>7. /\ Amount("P_13_1") = b1 /\ Amount("P_13_2") = b2 /\ Amount("P_13_3") = b3
        /\ Amount("P_13_6_1") = b4 /\ Amount("P_13_7") = b5 /\ Amount("P_13_8") = b6
    <3>1. \A f \in Fields \ VATFields : Amount(f) = vatBases(lines, RateOf(f, lines))
      BY <1>1, AmountOfField
    <3>2. {"P_13_1", "P_13_2", "P_13_3", "P_13_6_1", "P_13_7", "P_13_8"}
            \subseteq Fields \ VATFields
      BY DEF Fields, VATFields
    <3> QED
      BY <3>1, <3>2, RateOfFields
  <2>8. ASSUME NEW f \in VATFields
        PROVE  LET v == vatAmounts(lines, RateOf(f, lines))
                   n == IF f \in shown THEN 1 ELSE 0
               IN  /\ Amount(f) \in Int
                   /\ v - 50 * n <= 100 * Amount(f) /\ 100 * Amount(f) <= v + 50 * n
    <3> DEFINE v == vatAmounts(lines, RateOf(f, lines))
    <3>1. f \in Fields
      BY DEF Fields, VATFields
    <3>2. /\ Amount(f) \in Int /\ v \in Int
          /\ v - 50 <= 100 * Amount(f) /\ 100 * Amount(f) <= v + 50
          /\ f \notin shown => 100 * Amount(f) = v
      BY <1>1, <3>1, AmountOfField
    <3> HIDE DEF v, shown
    <3>3. CASE f \in shown
      BY <3>2, <3>3 DEF v
    <3>4. CASE f \notin shown
      BY <3>2, <3>4 DEF v
    <3> QED
      BY <3>3, <3>4
  <2>9. /\ t1 \in Int /\ v1 - 50 * n1 <= 100 * t1 /\ 100 * t1 <= v1 + 50 * n1
        /\ t2 \in Int /\ v2 - 50 * n2 <= 100 * t2 /\ 100 * t2 <= v2 + 50 * n2
        /\ t3 \in Int /\ v3 - 50 * n3 <= 100 * t3 /\ 100 * t3 <= v3 + 50 * n3
    <3>1. "P_14_1" \in VATFields /\ "P_14_2" \in VATFields /\ "P_14_3" \in VATFields
      BY DEF VATFields
    <3> HIDE DEF shown
    <3> QED
      BY <2>8, <3>1, RateOfFields
  <2>10. Cardinality(shown) = n1 + n2 + n3
    <3>1. shown = {f \in VATFields : f \in shown}
      OBVIOUS
    <3> HIDE DEF shown
    <3> QED
      BY <3>1, CountOfVAT
  <2>11. n1 \in Nat /\ n2 \in Nat /\ n3 \in Nat
    OBVIOUS
  <2>12. SummaryTotal = b1 + t1 + b2 + t2 + b3 + t3 + b4 + b5 + b6
    BY <2>7 DEF SummaryTotal
  <2> HIDE DEF lines, last, shown, n1, n2, n3, b1, b2, b3, b4, b5, b6, v1, v2, v3,
               t1, t2, t3, total, exact, rest
  <2>13. Abs(100 * (total - (b1 + t1 + b2 + t2 + b3 + t3 + b4 + b5 + b6)) - rest)
           <= 50 * (1 + (n1 + n2 + n3))
    BY <2>3, <2>4, <2>5, <2>6, <2>9, <2>11 DEF Abs
  <2> QED
    BY <2>10, <2>12, <2>13, Zenon DEF shown, total, rest
<1>2. DocumentInv => SummaryReconciles
  BY <1>1 DEF SummaryReconciles
<1> QED
  BY <1>2, DocumentIsInvariant, PTL

-----------------------------------------------------------------------------
(* Types.                                                                  *)

(* What the setters have stored; the buyer's address and the document are  *)
(* the invariants above.                                                   *)
SettersInv ==
    /\ seller \in Sellers \cup {NoParty}
    /\ buyer \in Buyers \cup {NoParty}
    /\ buyerAddress \in Cells \cup {Absent}
    /\ number \in Numbers \cup {""}
    /\ dates \in [issue : BOOLEAN, sale : BOOLEAN]
    /\ payment \in [method : BOOLEAN, due : BOOLEAN, account : BOOLEAN]
    /\ payment.method \/ payment.due \/ payment.account => payment \in Payments
    /\ currency \in Currencies \cup {"PLN"}
    /\ calls \in 0..MaxCalls

LEMMA InitSetters == Init => SettersInv
<1> SUFFICES ASSUME Init PROVE SettersInv
  OBVIOUS
<1>1. /\ seller = NoParty /\ buyer = NoParty /\ buyerAddress = Absent
      /\ number = "" /\ currency = "PLN" /\ calls = 0
  BY DEF Init
<1>2. /\ dates = [issue |-> FALSE, sale |-> FALSE]
      /\ payment = [method |-> FALSE, due |-> FALSE, account |-> FALSE]
  BY DEF Init
<1>3. 0 \in 0..MaxCalls
  BY InputsAreTyped
<1> QED
  BY <1>1, <1>2, <1>3 DEF SettersInv

LEMMA StepSetters == SettersInv /\ [Next]_vars => SettersInv'
<1> SUFFICES ASSUME SettersInv, [Next]_vars PROVE SettersInv'
  OBVIOUS
<1>1. Next => calls' \in 0..MaxCalls
  <2>1. Next => Call
    BY DEF Next, SetSeller, SetBuyer, StoreBuyer, SetInvoiceNumber, SetDates,
           SetPayment, SetCurrency, AddItem, Build, BuildRejects
  <2>2. MaxCalls \in Nat /\ calls \in 0..MaxCalls
    BY InputsAreTyped DEF SettersInv
  <2> QED
    BY <2>1, <2>2 DEF Call
<1>2. CASE UNCHANGED vars
  BY <1>2 DEF SettersInv, vars, parties, header
<1>3. CASE SetSeller
  BY <1>1, <1>3 DEF SettersInv, Next, SetSeller, header
<1>4. CASE SetBuyer
  <2>1. PICK c \in Cells : StoreBuyer(c)
    BY <1>4 DEF SetBuyer, Free
  <2> QED
    BY <1>1, <1>4, <2>1 DEF SettersInv, Next, StoreBuyer, header
<1>5. CASE SetInvoiceNumber
  BY <1>1, <1>5 DEF SettersInv, Next, SetInvoiceNumber, parties
<1>6. CASE SetDates
  BY <1>1, <1>6, InputsAreTyped DEF SettersInv, Next, SetDates, parties
<1>7. CASE SetPayment
  BY <1>1, <1>7, InputsAreTyped DEF SettersInv, Next, SetPayment, parties
<1>8. CASE SetCurrency
  BY <1>1, <1>8 DEF SettersInv, Next, SetCurrency, parties
<1>9. CASE AddItem \/ Build \/ BuildRejects
  BY <1>1, <1>9 DEF SettersInv, Next, AddItem, Build, BuildRejects, parties, header
<1> QED
  BY <1>2, <1>3, <1>4, <1>5, <1>6, <1>7, <1>8, <1>9 DEF Next

InvoiceInv == invoice \in Documents \cup {Absent}

(* Validate has seen that there is a seller, a number and, if any, a named *)
(* buyer: what Build returns has none of the empty values of a new builder.*)
LEMMA BuildTypes ==
    ASSUME SettersInv, AddressInv, DocumentInv, Build PROVE InvoiceInv'
<1>1. PICK vat \in FormattedVAT, gross \in Formatted(grossTotal(items)) :
          invoice' = assemble(vat, gross) /\ Validate(assemble(vat, gross))
  BY DEF Build
<1> DEFINE f == assemble(vat, gross)
<1>2. items \in Seq(Lines)
  BY DEF DocumentInv
<1>3. gross \in Int
  BY <1>2, GrossTotal, FormattedIsClose
<1>4. f.summary \in [Fields -> Int \cup {Absent}]
  <2>1. VATOf(items, vat)
    BY DEF FormattedVAT, VATOf
  <2>2. f.summary = populateVATSummary(items, vat)
    BY DEF assemble
  <2> QED
    BY <1>2, <2>1, <2>2, SummaryType
<1>5. f.Podmiot1 \in Sellers
  <2>1. f.Podmiot1 = seller /\ f.Podmiot1.nip.bytes = 10
    BY <1>1 DEF assemble, Validate, validateNIP
  <2>2. NoParty.nip.bytes = 0
    BY DEF NoParty
  <2>3. seller # NoParty
    BY <2>1, <2>2
  <2> QED
    BY <2>1, <2>3 DEF SettersInv
<1>6. f.P_2 \in Numbers
  <2>1. f.P_2 = number /\ f.P_2 # ""
    BY <1>1 DEF assemble, Validate
  <2> QED
    BY <2>1 DEF SettersInv
<1>7. f.Podmiot2 \in [party : Buyers, adres : Cells] \cup {Absent}
  <2> DEFINE p == f.Podmiot2
             known == [party |-> buyer, adres |-> buyerAddress]
  <2>1. p = IF buyer.name = "" /\ ~Given(buyer.nip) THEN Absent ELSE known
    BY DEF assemble
  <2>2. p # Absent => p.party.name # ""
    BY <1>1 DEF Validate
  <2>3. known.party = buyer
    OBVIOUS
  <2>4. NoParty.name = ""
    BY DEF NoParty
  <2> HIDE DEF p
  <2>5. CASE p # Absent
    <3> HIDE DEF known
    <3>1. p = known /\ (buyer.name # "" \/ Given(buyer.nip))
      BY <2>1, <2>5
    <3>2. buyer \in Buyers
      BY <2>2, <2>3, <2>4, <2>5, <3>1 DEF SettersInv
    <3>3. buyerAddress \in Cells
      BY <3>1 DEF AddressInv
    <3>4. known \in [party : Buyers, adres : Cells]
      BY <3>2, <3>3 DEF known
    <3> QED
      BY <3>1, <3>4 DEF p
  <2> QED
    BY <2>5 DEF p
<1>8. f.Platnosc \in Payments \cup {Absent}
  BY DEF assemble, SettersInv
<1>9. /\ f.KodWaluty \in Currencies \cup {"PLN"} /\ f.P_1 \in BOOLEAN
      /\ f.P_6 \in BOOLEAN /\ f.P_15 \in Int /\ f.FaWiersz \in Seq(Lines)
  BY <1>2, <1>3 DEF assemble, SettersInv
<1>10. f = [Podmiot1 |-> f.Podmiot1, Podmiot2 |-> f.Podmiot2,
            KodWaluty |-> f.KodWaluty, P_1 |-> f.P_1, P_2 |-> f.P_2,
            P_6 |-> f.P_6, P_15 |-> f.P_15, summary |-> f.summary,
            FaWiersz |-> f.FaWiersz, Platnosc |-> f.Platnosc]
  BY DEF assemble
<1> HIDE DEF f
<1>11. f \in Documents
  BY <1>4, <1>5, <1>6, <1>7, <1>8, <1>9, <1>10 DEF Documents
<1> QED
  BY <1>1, <1>11 DEF f, InvoiceInv

(* Every variable keeps its type, and an invoice that Build has returned   *)
(* has a seller, a number, lines and a buyer that were given to the        *)
(* builder (validate.go:28-68).                                            *)
THEOREM TypesAreKept == Spec => []TypeOK
<1> DEFINE TypeInv == SettersInv /\ AddressInv /\ DocumentInv /\ InvoiceInv
<1>1. Init => TypeInv
  BY InitSetters, InitAddress, InitDocument DEF Init, InvoiceInv
<1>2. TypeInv /\ [Next]_vars => TypeInv'
  <2> SUFFICES ASSUME TypeInv, [Next]_vars PROVE InvoiceInv'
    BY StepSetters, StepAddress, StepDocument
  <2>1. CASE Build
    BY <2>1, BuildTypes
  <2>2. CASE ~Build
    <3>1. invoice' = invoice
      BY <2>2 DEF Next, SetSeller, SetBuyer, StoreBuyer, SetInvoiceNumber,
         SetDates, SetPayment, SetCurrency, AddItem, BuildRejects, vars
    <3> QED
      BY <3>1 DEF InvoiceInv
  <2> QED
    BY <2>1, <2>2
<1>3. TypeInv => TypeOK
  BY DEF SettersInv, AddressInv, DocumentInv, InvoiceInv, TypeOK
<1> QED
  BY <1>1, <1>2, <1>3, PTL DEF Spec
=============================================================================
