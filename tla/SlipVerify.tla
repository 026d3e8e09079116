----------------------------- MODULE SlipVerify -----------------------------
(***************************************************************************)
(* What SlipVerifyService (modules/slip-verify/slip-verify.service.ts)     *)
(* makes of one slip, once it is known not to be a duplicate: a function   *)
(* of what the QR scanner and the OCR read and of what the bank or the     *)
(* receipt page answers.  Amounts are in cents of a birr.                  *)
(***************************************************************************)
EXTENDS Integers

CONSTANTS Due,     \* the amount of the payment
          Amounts  \* the amounts the OCR may read from a slip

ASSUME AmountsAssumption == Due \in Nat \ {0} /\ Amounts \subseteq Nat \ {0}

(* extractAmount finds no positive amount. *)
Unread == 0

Providers == {"CBE", "TELEBIRR", "OTHER", "UNKNOWN"}

(* What a source of text names and shows: a QR code (none, when the scan or  *)
(* the conversion of a PDF fails) and the recognised text (empty, when the   *)
(* OCR fails).                                                               *)
NoQr == [data |-> FALSE, url |-> FALSE, ref |-> FALSE, provider |-> "UNKNOWN"]
QrCodes == {NoQr} \cup
    [data : {TRUE}, url : BOOLEAN, ref : BOOLEAN, provider : Providers]
Texts == [ref : BOOLEAN, amount : Amounts \cup {Unread}, provider : Providers]

(* parseExtractedText: the QR code's reference goes before the text's.       *)
Extract(qr, text) ==
    [qr       |-> qr.data,
     url      |-> qr.url,
     ref      |-> qr.ref \/ text.ref,
     amount   |-> text.amount,
     provider |-> CASE "CBE"      \in {qr.provider, text.provider} -> "CBE"
                    [] "TELEBIRR" \in {qr.provider, text.provider}
                       /\ "CBE"   \notin {qr.provider, text.provider} -> "TELEBIRR"
                    [] {"CBE", "TELEBIRR"} \cap {qr.provider, text.provider} = {} ->
                         IF "OTHER" \in {qr.provider, text.provider}
                         THEN "OTHER" ELSE "UNKNOWN"]

Extracts == {Extract(qr, text) : qr \in QrCodes, text \in Texts}

(* The dedupe key is the reference or, failing that, the receipt's URL.      *)
HasKey(e) == e.ref \/ e.url

-----------------------------------------------------------------------------
(* tryOnlineVerification.  The bank: its credentials are not configured, the *)
(* call fails, or it confirms or refuses the transaction.                    *)

BankAnswers == {"unconfigured", "error", "confirms", "refuses"}
PageAnswers == {"error", "confirms", "unclear"}

AsksBank(e, bank) ==
    e.provider \in {"CBE", "TELEBIRR"} /\ e.ref /\ bank # "unconfigured"

BankVerdict(bank) ==
    CASE bank = "confirms" -> "AUTO"
      [] bank = "refuses"  -> "FAILED"
      [] OTHER             -> "none"

PageVerdict(page) ==
    CASE page = "confirms" -> "AUTO"
      [] page = "unclear"  -> "MANUAL"
      [] OTHER             -> "none"

(* A bank that cannot be reached is not followed by the receipt page.        *)
OnlineVerdict(e, bank, page) ==
    CASE AsksBank(e, bank)              -> BankVerdict(bank)
      [] ~AsksBank(e, bank) /\ e.url    -> PageVerdict(page)
      [] ~AsksBank(e, bank) /\ ~e.url   -> "none"

-----------------------------------------------------------------------------
(* heuristicVerify *)

Distance(a, b) == IF a < b THEN b - a ELSE a - b

Exact(a) == a # Unread /\ Distance(a, Due) < 100

(* Less than five per cent off.  Variant: five per cent is near enough.      *)
Near_Inclusive(a) == a # Unread /\ Distance(a, Due) * 20 <= Due
Near(a) == a # Unread /\ Distance(a, Due) * 20 < Due

AmountScore(a) ==
    IF a = Unread THEN 10 ELSE IF Exact(a) THEN 40 ELSE IF Near(a) THEN 20 ELSE 0

Known(e) == e.provider # "UNKNOWN"

(* confidence > 0.7, where 0.4 + 0.3 is not above it and 0.4 + 0.2 + 0.1 is, *)
(* by the last bit of the double.                                            *)
Confident(e) ==
    e.ref /\ \/ e.amount # Unread /\ (e.qr \/ Known(e))
             \/ e.qr /\ Known(e)

Score(e) == (IF e.ref THEN 30 ELSE 0) + AmountScore(e.amount)
            + (IF Known(e) THEN 15 ELSE 0) + (IF e.qr THEN 15 ELSE 0)
            + (IF Confident(e) THEN 10 ELSE 0)

HeuristicVerdict(e) == IF Score(e) >= 70 THEN "AUTO" ELSE "MANUAL"

-----------------------------------------------------------------------------
Verdict(e, bank, page) ==
    LET online == OnlineVerdict(e, bank, page)
    IN IF online # "none" THEN online ELSE HeuristicVerdict(e)

(* The verdicts on a slip that has, and on one that has no dedupe key.       *)
VerdictsOn(keyed) ==
    {Verdict(e, bank, page) : e \in {x \in Extracts : HasKey(x) = keyed},
                              bank \in BankAnswers, page \in PageAnswers}
KeyedVerdicts   == VerdictsOn(TRUE)
UnkeyedVerdicts == VerdictsOn(FALSE)

-----------------------------------------------------------------------------
(* What an automatic approval takes: the bank or the receipt's page has      *)
(* confirmed the payment, or neither answers and the slip bears it out.      *)
Confirmed(e, bank, page) ==
    \/ AsksBank(e, bank) /\ bank = "confirms"
    \/ ~AsksBank(e, bank) /\ e.url /\ page = "confirms"

NobodyAnswers(e, bank, page) ==
    IF AsksBank(e, bank) THEN bank = "error" ELSE e.url => page = "error"

(* How far the amount read is off what is due decides what else it takes.    *)
(* The last case is that of an amount nobody could read, and also of one     *)
(* that was read and is plainly wrong.                                       *)
Evidence(e) ==
    LET toTheBirr  == e.amount # Unread /\ e.amount \in (Due - 99)..(Due + 99)
        nearEnough == 95 * Due < 100 * e.amount /\ 100 * e.amount < 105 * Due
        named      == e.provider # "UNKNOWN"
    IN \/ toTheBirr /\ (e.ref \/ (named /\ e.qr))
       \/ nearEnough /\ e.ref /\ (named \/ e.qr)
       \/ e.ref /\ named /\ e.qr

(* The slips that some answers approve without that, or send to a reviewer   *)
(* in spite of it.                                                           *)
Misjudged ==
    {e \in Extracts : \E bank \in BankAnswers, page \in PageAnswers :
        (Verdict(e, bank, page) = "AUTO") #
            (Confirmed(e, bank, page) \/ (NobodyAnswers(e, bank, page) /\ Evidence(e)))}
=============================================================================
