------------------------------ MODULE Envelope ------------------------------
(***************************************************************************)
(* SignedEnvelope v1 and the checks of verify_envelope                     *)
(* (agent_auth/_protocol.py).                                              *)
(*                                                                         *)
(* An envelope is a record with the fields of the wire format that the     *)
(* checks tell apart: id, type, sender, audience, kid, issued, replyTo and *)
(* body.  The signature is abstracted to "signer", the public key whose    *)
(* private half produced it over exactly these fields (a signature that    *)
(* verifies under no key has a signer that is no key of any record).       *)
(* A "record" is what the verifier believes about the sender:              *)
(* [agent, kid, key].  Times are whole clock units.                        *)
(***************************************************************************)
EXTENDS Integers

CONSTANTS Skew,     \* allowed_skew_seconds
          NoReply   \* reply_to is null, or expected_reply_to is None

ASSUME SkewAssumption == Skew \in Nat

Distance(s, t) == IF s < t THEN t - s ELSE s - t

\* The accepted window is closed at both ends: abs(current - issued) <= Skew.
Fresh(e, time) == Distance(e.issued, time) <= Skew

\* From this instant on the nonce of e is purged by the next consume.
Expiry(e) == e.issued + Skew

SignedBy(e, rec) == e.signer = rec.key

\* The first check that fails, in the order of the code, or "ok".
VerifyRefusal(e, rec, audience, type, replyTo, time) ==
    IF e.sender # rec.agent \/ e.kid # rec.kid THEN "SIGNER_MISMATCH"
    ELSE IF e.audience # audience THEN "AUDIENCE_MISMATCH"
    ELSE IF e.type # type THEN "TYPE_MISMATCH"
    ELSE IF replyTo # NoReply /\ e.replyTo # replyTo THEN "REPLY_MISMATCH"
    ELSE IF ~Fresh(e, time) THEN "TIMESTAMP_EXPIRED"
    ELSE IF ~SignedBy(e, rec) THEN "SIGNATURE_INVALID"
    ELSE "ok"
=============================================================================
