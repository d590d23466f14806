--------------------------- MODULE InvoiceBuilder ---------------------------
(***************************************************************************)
(* The invoice builder of pkg/ksef/fa3: the setters of InvoiceBuilder in   *)
(* any order and any number of times, Build with assemble,                 *)
(* vatRatePercent, populateVATSummary and Validate.                        *)
(*                                                                         *)
(* Two things matter.  The amounts: the summary fields and the gross total *)
(* are sums over the line items, computed in float64 and rounded each on   *)
(* its own.  And sharing: an invoice that Build has returned points to the *)
(* buyer's address of the builder, which lives on (cells are the           *)
(* addresses a builder or an invoice points to).                           *)
(*                                                                         *)
(* Net values are in grosze (two decimal places, types.go), VAT and gross  *)
(* sums in hundredths of a grosz, in which a whole percentage is exact.    *)
(* The sums are those of exact arithmetic: what float64 loses over many or *)
(* large lines, and the infinities and NaN that ParseFloat accepts for a   *)
(* net value or a rate, are not modelled.                                  *)
(***************************************************************************)
EXTENDS Integers, Sequences, FiniteSets

CONSTANTS
    Sellers, Buyers,   \* [name, nip] passed to SetSeller and SetBuyer
    Addresses,         \* the buyer's addresses
    Numbers,           \* invoice numbers
    Dates,             \* [issue, sale]: TRUE for a date, FALSE for zero time
    Payments,          \* [method, due, account]: which of them are given
    Currencies,        \* codes passed to SetCurrency
    Lines,             \* [description, net, rate], net = [given, parsed]
    ParsedRates,       \* ParseFloat of the codes without a constant
    Cells,             \* memory for addresses
    Absent,            \* nil
    MaxItems,          \* bound on the lines of an invoice
    MaxCalls           \* bound on the calls made on the builder

ASSUME InputsAreTyped ==
    /\ Dates \subseteq [issue : BOOLEAN, sale : BOOLEAN]
    /\ Payments \subseteq [method : BOOLEAN, due : BOOLEAN, account : BOOLEAN]
    /\ Lines \subseteq [description : STRING, rate : STRING,
                        net : [given : BOOLEAN, parsed : Int]]
    /\ MaxCalls \in Nat

(* The codes with a Stawka constant (types.go).                            *)
Stawki == {"23", "8", "5", "0", "ZW", "OO", "NP", "NN"}

ASSUME OtherRatesAreParsed ==
    /\ ParsedRates \in [DOMAIN ParsedRates -> Int]
    /\ \A line \in Lines : line.rate \in Stawki \cup DOMAIN ParsedRates

ASSUME NilIsNoAmount == Absent \notin Int

VARIABLES
    seller, buyer, buyerAddress, number, dates, payment, currency, items,
    cells,     \* what the address cells hold
    invoice,   \* the *Faktura that Build returned last
    calls

parties == <<seller, buyer, buyerAddress, cells>>
header  == <<number, dates, payment, currency>>
vars    == <<parties, header, items, invoice, calls>>

-----------------------------------------------------------------------------
(* Amounts.                                                                *)

Fields == {"P_13_1", "P_14_1", "P_13_2", "P_14_2", "P_13_3", "P_14_3",
           "P_13_6_1", "P_13_7", "P_13_8"}
VATFields == {"P_14_1", "P_14_2", "P_14_3"}

(* vatRatePercent: the percentage of a rate code.  Its key is the code     *)
(* itself.  A code without a constant is parsed: "7" is 7 %, "np" is 0 %.  *)
vatRatePercent(rate) ==
    CASE rate = "23" -> 23
      [] rate = "8"  -> 8
      [] rate = "5"  -> 5
      [] rate \in {"0", "ZW", "OO", "NP", "NN"} -> 0
      [] OTHER -> ParsedRates[rate]

WithRate(lines, rate) == {i \in DOMAIN lines : lines[i].rate = rate}

(* What the loop over the items adds up: amount[i] of every line i.        *)
SumOver(lines, amount) ==
    LET sum[i \in 0..Len(lines)] ==
            IF i = 0 THEN 0 ELSE sum[i - 1] + amount[i]
    IN  sum[Len(lines)]

Net(line) == line.net.parsed

(* Mutant: the VAT of every line is rounded.                               *)
Vat_PerLine(line) ==
    100 * ((Net(line) * vatRatePercent(line.rate) + 50) \div 100)

Vat(line) == Net(line) * vatRatePercent(line.rate)

Gross(line) == 100 * Net(line) + Vat(line)

vatBases(lines, rate) ==
    SumOver(lines, [i \in DOMAIN lines |->
                       IF lines[i].rate = rate THEN Net(lines[i]) ELSE 0])

vatAmounts(lines, rate) ==
    SumOver(lines, [i \in DOMAIN lines |->
                       IF lines[i].rate = rate THEN Vat(lines[i]) ELSE 0])

grossTotal(lines) == SumOver(lines, [i \in DOMAIN lines |-> Gross(lines[i])])

(* "%.2f" of a sum: the nearest grosz.  A half goes either way: it depends *)
(* on the float64 that stands for the sum.                                 *)
Formatted(sum) ==
    {g \in (sum \div 100)..(sum \div 100 + 1) :
        sum - 50 <= 100 * g /\ 100 * g <= sum + 50}

(* The rate a field of the summary is about.  populateVATSummary writes    *)
(* P_13_8 for OO first and then for NP.                                    *)
RateOf(field, lines) ==
    CASE field \in {"P_13_1", "P_14_1"} -> "23"
      [] field \in {"P_13_2", "P_14_2"} -> "8"
      [] field \in {"P_13_3", "P_14_3"} -> "5"
      [] field = "P_13_6_1" -> "0"
      [] field = "P_13_7" -> "ZW"
      [] OTHER -> IF WithRate(lines, "NP") # {} THEN "NP" ELSE "OO"

TaxedRates == {"23", "8", "5"}

(* A field of the summary, if its rate occurs; vat: the formatted VAT.     *)
FieldValue(f, lines, vat) ==
    LET rate == RateOf(f, lines)
    IN  IF WithRate(lines, rate) = {} THEN Absent
        ELSE IF f \in VATFields THEN vat[rate]
        ELSE vatBases(lines, rate)

(* Mutant: the net sum of 0 % supplies is not written.                     *)
populateVATSummary_ZeroLost(lines, vat) ==
    [f \in Fields |->
        IF f = "P_13_6_1" THEN Absent ELSE FieldValue(f, lines, vat)]

populateVATSummary(lines, vat) ==
    [f \in Fields |-> FieldValue(f, lines, vat)]

-----------------------------------------------------------------------------
(* Documents.                                                              *)

(* A NIP by its length in bytes and whether unicode.IsDigit holds of every *)
(* rune: 10 bytes need not be 10 digits.                                   *)
validateNIP(nip) == nip.bytes = 10 /\ nip.digits

Given(nip) == nip.bytes # 0

NoParty == [name |-> "", nip |-> [bytes |-> 0, digits |-> TRUE]]

(* The Faktura as the builder stands, with the given formatted amounts.    *)
assemble(vat, gross) ==
    [Podmiot1 |-> seller,
     Podmiot2 |-> IF buyer.name = "" /\ ~Given(buyer.nip) THEN Absent
                  ELSE [party |-> buyer, adres |-> buyerAddress],
     KodWaluty |-> currency,
     P_1 |-> dates.issue, P_2 |-> number, P_6 |-> dates.sale,
     P_15 |-> gross,
     summary |-> populateVATSummary(items, vat),
     FaWiersz |-> items,
     Platnosc |-> IF payment.method \/ payment.due \/ payment.account
                  THEN payment ELSE Absent]

(* Mutant: the seller is not checked.                                      *)
Validate_SellerUnchecked(f) ==
    /\ f.P_1 /\ f.P_2 # ""
    /\ f.FaWiersz # <<>>

Validate(f) ==
    /\ validateNIP(f.Podmiot1.nip) /\ f.Podmiot1.name # ""
    /\ f.P_1 /\ f.P_2 # ""
    /\ f.FaWiersz # <<>>
    /\ \A i \in DOMAIN f.FaWiersz :
          /\ f.FaWiersz[i].description # "" /\ f.FaWiersz[i].rate # ""
          /\ f.FaWiersz[i].net.given
    /\ f.Podmiot2 # Absent =>
          /\ f.Podmiot2.party.name # ""
          /\ Given(f.Podmiot2.party.nip) => validateNIP(f.Podmiot2.party.nip)

-----------------------------------------------------------------------------
(* The builder.                                                            *)

(* NewInvoiceBuilder *)
Init ==
    /\ seller = NoParty
    /\ buyer = NoParty
    /\ buyerAddress = Absent
    /\ number = ""
    /\ dates = [issue |-> FALSE, sale |-> FALSE]
    /\ payment = [method |-> FALSE, due |-> FALSE, account |-> FALSE]
    /\ currency = "PLN"
    /\ items = <<>>
    /\ \E a \in Addresses : cells = [c \in Cells |-> a]
    /\ invoice = Absent
    /\ calls = 0

Call == calls < MaxCalls /\ calls' = calls + 1

SetSeller ==
    /\ Call
    /\ seller' \in Sellers
    /\ UNCHANGED <<buyer, buyerAddress, cells, header, items, invoice>>

(* Cells that neither the builder nor the invoice points to.               *)
Free == Cells \ ({buyerAddress} \cup
    IF invoice = Absent \/ invoice.Podmiot2 = Absent THEN {}
    ELSE {invoice.Podmiot2.adres})

(* The buyer's data, and an address stored in cell c.                      *)
StoreBuyer(c) ==
    /\ Call
    /\ buyer' \in Buyers
    /\ \E a \in Addresses : cells' = [cells EXCEPT ![c] = a]
    /\ buyerAddress' = c
    /\ UNCHANGED <<seller, header, items, invoice>>

(* Mutant: *b.buyerAddress = address once there is one.                    *)
SetBuyer_InPlace ==
    IF buyerAddress = Absent THEN \E c \in Free : StoreBuyer(c)
    ELSE StoreBuyer(buyerAddress)

(* a := address; b.buyerAddress = &a                                       *)
SetBuyer == \E c \in Free : StoreBuyer(c)

SetInvoiceNumber ==
    /\ Call
    /\ number' \in Numbers
    /\ UNCHANGED <<parties, dates, payment, currency, items, invoice>>

SetDates ==
    /\ Call
    /\ dates' \in Dates
    /\ UNCHANGED <<parties, number, payment, currency, items, invoice>>

SetPayment ==
    /\ Call
    /\ payment' \in Payments
    /\ UNCHANGED <<parties, number, dates, currency, items, invoice>>

SetCurrency ==
    /\ Call
    /\ currency' \in Currencies
    /\ UNCHANGED <<parties, number, dates, payment, items, invoice>>

AddItem ==
    /\ Call
    /\ Len(items) < MaxItems
    /\ \E line \in Lines : items' = Append(items, line)
    /\ UNCHANGED <<parties, header, invoice>>

(* The formatted VAT amounts of the lines.                                 *)
FormattedVAT ==
    {vat \in [TaxedRates -> UNION {Formatted(vatAmounts(items, r)) : r \in TaxedRates}] :
        \A r \in TaxedRates : vat[r] \in Formatted(vatAmounts(items, r))}

(* Build, BuildXML: what assemble makes of the builder, if it is valid.    *)
Build ==
    /\ Call
    /\ \E vat \in FormattedVAT, gross \in Formatted(grossTotal(items)) :
          LET f == assemble(vat, gross)
          IN  Validate(f) /\ invoice' = f
    /\ UNCHANGED <<parties, header, items>>

(* Build returns an error: the caller is left with what it had.            *)
BuildRejects ==
    /\ Call
    /\ \A vat \in FormattedVAT, gross \in Formatted(grossTotal(items)) :
          ~Validate(assemble(vat, gross))
    /\ UNCHANGED <<parties, header, items, invoice>>

Next ==
    \/ SetSeller \/ SetBuyer \/ SetInvoiceNumber \/ SetDates
    \/ SetPayment \/ SetCurrency \/ AddItem
    \/ Build \/ BuildRejects

Spec == Init /\ [][Next]_vars

-----------------------------------------------------------------------------
(* Properties.                                                             *)

Documents ==
    [Podmiot1 : Sellers,
     Podmiot2 : [party : Buyers, adres : Cells] \cup {Absent},
     KodWaluty : Currencies \cup {"PLN"},
     P_1 : BOOLEAN, P_2 : Numbers, P_6 : BOOLEAN,
     P_15 : Int,
     summary : [Fields -> Int \cup {Absent}],
     FaWiersz : Seq(Lines),
     Platnosc : Payments \cup {Absent}]

TypeOK ==
    /\ seller \in Sellers \cup {NoParty}
    /\ buyer \in Buyers \cup {NoParty}
    /\ buyerAddress \in Cells \cup {Absent}
    /\ number \in Numbers \cup {""}
    /\ dates \in [issue : BOOLEAN, sale : BOOLEAN]
    /\ payment \in [method : BOOLEAN, due : BOOLEAN, account : BOOLEAN]
    /\ currency \in Currencies \cup {"PLN"}
    /\ items \in Seq(Lines)
    /\ cells \in [Cells -> Addresses]
    /\ invoice \in Documents \cup {Absent}
    /\ calls \in 0..MaxCalls

Built == invoice # Absent

(* What a reader of the returned invoice sees, addresses included.         *)
Content ==
    IF invoice = Absent \/ invoice.Podmiot2 = Absent THEN <<invoice>>
    ELSE <<invoice, cells[invoice.Podmiot2.adres]>>

(* An invoice that Build has returned does not change when the builder is  *)
(* used again, although it points to the builder's address                 *)
(* (builder.go:65-71, 234).                                                *)
BuiltIsFrozen == [][Content' # Content => Build]_vars

Amount(f) == IF invoice.summary[f] = Absent THEN 0 ELSE invoice.summary[f]

SummaryTotal ==
    Amount("P_13_1") + Amount("P_14_1") + Amount("P_13_2") + Amount("P_14_2")
    + Amount("P_13_3") + Amount("P_14_3")
    + Amount("P_13_6_1") + Amount("P_13_7") + Amount("P_13_8")

(* The rates that have a field according to the comments on the fields     *)
(* (types.go:347-381) and on P_13_8 (builder.go:292).                      *)
RatesWithField == {"23", "8", "5", "0", "ZW", "OO", "NP"}

(* Gross sum of the lines that the summary leaves out: those of other      *)
(* rates, for which the struct has no field that the builder fills, and    *)
(* those of OO on an invoice that also has NP lines, whose sum replaces    *)
(* theirs in P_13_8.                                                       *)
LeftOut ==
    LET lines == invoice.FaWiersz
        replaced == IF WithRate(lines, "NP") = {} THEN {} ELSE {"OO"}
    IN  SumOver(lines, [i \in DOMAIN lines |->
                           IF lines[i].rate \in RatesWithField \ replaced THEN 0
                           ELSE Gross(lines[i])])

Abs(n) == IF n < 0 THEN -n ELSE n

(* Every line with a rate that has a field is in the summary, once: the    *)
(* gross total differs from what the summary adds up to by the lines left  *)
(* out and by roundings, half a grosz for the total and for each VAT       *)
(* amount (builder.go:157-170, 271-302).                                   *)
SummaryReconciles ==
    Built =>
        Abs(100 * (invoice.P_15 - SummaryTotal) - LeftOut)
        <= 50 * (1 + Cardinality({f \in VATFields : invoice.summary[f] # Absent}))

(* The VAT of a rate is that percentage of its net sum, to half a grosz,   *)
(* however many lines it is spread over (builder.go:157-162, 282-287,      *)
(* types.go:347-360).                                                      *)
VATIsOfTheBase ==
    Built =>
        \A rate \in {<<23, "P_13_1", "P_14_1">>, <<8, "P_13_2", "P_14_2">>,
                     <<5, "P_13_3", "P_14_3">>} :
            Abs(100 * Amount(rate[3]) - rate[1] * Amount(rate[2])) <= 50
=============================================================================
