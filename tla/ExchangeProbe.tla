---------------------------- MODULE ExchangeProbe ----------------------------
(***************************************************************************)
(* The check of exchange credentials before they are stored: what probe    *)
(* (services/exchange_probe.py) makes of each answer of the exchange, and  *)
(* which verdicts an administrator may force past (routers/admin.py,       *)
(* _probe_credentials).                                                    *)
(***************************************************************************)
EXTENDS Integers

CONSTANT ValidateExchangeKeys   \* settings.validate_exchange_keys

ASSUME ValidateAssumption == ValidateExchangeKeys \in BOOLEAN

InvalidKeyCodes == {-2015, -2014, -1022, -2008}
ClockSkewCodes == {-1021}

(* What the exchange may answer about a key: it does not know it, or the    *)
(* signature is wrong; it knows it, and the key may trade or not; or, for   *)
(* every key, nothing that tells: no answer, the wrong country, a clock     *)
(* out of step, a code of its own, a body that is no JSON.                 *)
Answer(status, code, can_trade) == [status |-> status, code |-> code, can_trade |-> can_trade]

NoAnswer == Answer(0, 0, FALSE)
Opaque == {NoAnswer, Answer(451, 0, FALSE), Answer(400, -1021, FALSE),
           Answer(429, -1003, FALSE), Answer(502, 0, FALSE)}

Answers(known, can_trade) ==
    Opaque \cup IF known THEN {Answer(200, 0, can_trade)}
                         ELSE {Answer(401, c, FALSE) : c \in InvalidKeyCodes}

(* probe on a key the program can sign with. *)
Classified(a) ==
    IF a.status \in {0, 451} THEN "unavailable"
    ELSE IF a.status # 200
         THEN IF a.code \in InvalidKeyCodes THEN "invalid" ELSE "unavailable"
         ELSE IF a.can_trade THEN "verified" ELSE "invalid"

(* Mutated form: any refusal of the exchange may be forced past. *)
ProbedLoosely(pem, a) ==
    IF a.status = 200 THEN IF a.can_trade THEN "verified" ELSE "invalid" ELSE "unavailable"

(* An RSA or Ed25519 key cannot be probed, and no request is sent for it. *)
Probed(pem, a) == IF pem THEN "unavailable" ELSE Classified(a)

(* What set_exchange does after _probe_credentials. *)
Stored(verdict, force) ==
    \/ ~ValidateExchangeKeys
    \/ verdict = "verified"
    \/ verdict = "unavailable" /\ force

=============================================================================
