-------------------------- MODULE MCInvoiceBuilder --------------------------
(***************************************************************************)
(* An instance of InvoiceBuilder for TLC.                                  *)
(***************************************************************************)
EXTENDS InvoiceBuilder, TLC

NIP(b, d) == [bytes |-> b, digits |-> d]

(* A good seller, and one whose NIP has nine digits.                       *)
MCSellers == {[name |-> "S", nip |-> NIP(10, TRUE)],
              [name |-> "S", nip |-> NIP(9, TRUE)]}

(* A buyer with a NIP, one without, and one with letters for digits.       *)
MCBuyers == {[name |-> "B", nip |-> NIP(10, TRUE)],
             [name |-> "B", nip |-> NIP(0, TRUE)],
             [name |-> "B", nip |-> NIP(10, FALSE)]}

MCDates == {[issue |-> TRUE, sale |-> TRUE]}

MCPayments == {[method |-> FALSE, due |-> TRUE, account |-> FALSE]}

Line(n, r) ==
    [description |-> "d", net |-> [given |-> TRUE, parsed |-> n], rate |-> r]

(* A line per rate: the net values give VAT above, below and exactly at    *)
(* half a grosz; a discount; codes without a field, with a constant (NN),  *)
(* with a number (22, 7) and with neither (np); no net value.              *)
MCLines == {Line(10, "23"), Line(-3, "23"), Line(6, "8"), Line(10, "5"),
            Line(10, "0"), Line(10, "ZW"), Line(10, "OO"), Line(7, "NP"),
            Line(10, "NN"), Line(10, "22"), Line(10, "7"), Line(10, "np"),
            [description |-> "d", net |-> [given |-> FALSE, parsed |-> 0],
             rate |-> "23"]}

MCParsedRates == "22" :> 22 @@ "7" :> 7 @@ "np" :> 0

Symmetry == Permutations(Cells) \cup Permutations(Addresses)
=============================================================================
