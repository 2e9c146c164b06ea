------------------------------ MODULE Signing -------------------------------
(***************************************************************************)
(* The signature header (signing.py): what sign() writes and verify()      *)
(* accepts.  HMAC is ideal: a digest is the triple it was made of.  A      *)
(* header is the sequence of its elements, a name and a value each; a t    *)
(* that is no number has the value Unreadable.  The empty secret is 0.     *)
(***************************************************************************)
EXTENDS Integers, Sequences

CONSTANTS
    SIGNATURE_SCHEME,
    SIGNATURE_TOLERANCE_SECONDS

ASSUME SigningAssumption ==
    /\ SIGNATURE_SCHEME # "t"
    /\ SIGNATURE_TOLERANCE_SECONDS \in Nat

Unreadable == -1
NoHeader == << >>

UndatedDigest(secret, body, timestamp) ==   \* mutant: the time is not signed
    [secret |-> secret, body |-> body]
digest(secret, body, timestamp) ==
    [secret |-> secret, body |-> body, timestamp |-> timestamp]

sign(secret, body, timestamp) ==
    << [name |-> "t", value |-> timestamp],
       [name |-> SIGNATURE_SCHEME, value |-> digest(secret, body, timestamp)] >>

\* Where an element is in a header; the first t counts.
At(header, name) == {i \in DOMAIN header : header[i].name = name}
Timestamp(header) ==
    IF At(header, "t") = {} THEN Unreadable
    ELSE header[CHOOSE i \in At(header, "t") : \A j \in At(header, "t") : i <= j].value

\* Any one of them may have signed; an empty one never did.
Candidates(secrets) == secrets \ {0}

OnTime(timestamp, now) ==
    \/ SIGNATURE_TOLERANCE_SECONDS = 0
    \/ now - timestamp \in -SIGNATURE_TOLERANCE_SECONDS..SIGNATURE_TOLERANCE_SECONDS

verify(secrets, body, header, now) ==
    /\ Timestamp(header) # Unreadable
    /\ OnTime(Timestamp(header), now)
    /\ \E secret \in Candidates(secrets), i \in At(header, SIGNATURE_SCHEME) :
          header[i].value = digest(secret, body, Timestamp(header))

=============================================================================
