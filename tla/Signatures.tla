----------------------------- MODULE Signatures -----------------------------
(***************************************************************************)
(* The signatures of sign/sign_tools.go: ed25519 signatures of messages,   *)
(* and BLS threshold signatures that any t of n shares can make together.  *)
(*                                                                         *)
(* Cryptography is ideal.  A key is known by its seed; a signature is the  *)
(* key and the data it was made with, so it verifies if and only if both   *)
(* are right; t values of a polynomial of degree t - 1 at different places *)
(* determine its value at 0, and fewer do not.  Hashes are injective.      *)
(***************************************************************************)
EXTENDS Integers, Sequences, FiniteSets

GenED25519Keys(seed) == [private |-> [ed25519 |-> seed], public |-> [point |-> seed]]

SignEd25519(priKey, data) == [signer |-> priKey.ed25519, data |-> data]

VerifySignEd25519(publicKey, data, sig) == sig = [signer |-> publicKey.point, data |-> data]

-----------------------------------------------------------------------------
\* The t coefficients of a polynomial, by which the commitments to them are
\* known as well; and its value at x.
Poly(seed, t) == [i \in 1..t |-> <<seed, i>>]
Value(poly, x) == [poly |-> poly, x |-> x]

\* The share with index i is the value at i + 1.
GenTSKeys(seed, t, n) ==
    [shares |-> [i \in 0..n - 1 |-> [I |-> i, V |-> Value(Poly(seed, t), i + 1)]],
     public |-> [base |-> "G2", commits |-> Poly(seed, t)]]

\* tbls.Sign puts the index of the share in front of its BLS signature.
SignTSPartial(priKey, data) == [index |-> priKey.I, key |-> priKey.V, data |-> data]

\* tbls.Recover checks each partial signature with the public polynomial at its
\* index, and interpolates t of them; if t is below the threshold, what comes out
\* is another value than the one at 0.  The result is a set, empty if there is an
\* error, at which AssembleIntactTSPartial panics.
AssembleIntactTSPartial(partialSigs, pubPoly, data, t) ==
    LET valid == \A s \in partialSigs :
                    s.key = Value(pubPoly.commits, s.index + 1) /\ s.data = data
        enough == Cardinality({s.index : s \in partialSigs}) >= t
        place == IF t >= Len(pubPoly.commits) THEN 0 ELSE -1
    IN  IF valid /\ enough
        THEN {[key |-> Value(pubPoly.commits, place), data |-> data]}
        ELSE {}

VerifyTS(pubPoly, data, intactSig) ==
    intactSig = [key |-> Value(pubPoly.commits, 0), data |-> data]

-----------------------------------------------------------------------------
(***************************************************************************)
(* Keys are written to files as the JSON encoding of a marshalled form, in *)
(* which values and points are bytes.  The index of a share is a field of  *)
(* its own; the threshold is the number of commitments.                    *)
(***************************************************************************)
MarshalBinary(v) == <<v>>
UnmarshalBinary(bytes) == bytes[1]

encode(v) == [json |-> v]
decode(data) == data.json

MarshallTSPartialKey(priShare) == [I |-> priShare.I, Binary |-> MarshalBinary(priShare.V)]
UnMarshallTSPartialKey(par) == [I |-> par.I, V |-> UnmarshalBinary(par.Binary)]

EncodeTSPartialKey(priShare) == encode(MarshallTSPartialKey(priShare))
DecodeTSPartialKey(data) == UnMarshallTSPartialKey(decode(data))

MarshallTSPublicKey(pubKey) ==
    [BaseBytes |-> MarshalBinary(pubKey.base),
     CommitBytes |-> [i \in DOMAIN pubKey.commits |-> MarshalBinary(pubKey.commits[i])]]

UnMarshallTSPublicKey(tspm) ==
    [base |-> UnmarshalBinary(tspm.BaseBytes),
     commits |-> [i \in DOMAIN tspm.CommitBytes |-> UnmarshalBinary(tspm.CommitBytes[i])]]

EncodeTSPublicKey(pubKey) == encode(MarshallTSPublicKey(pubKey))
DecodeTSPublicKey(data) == UnMarshallTSPublicKey(decode(data))
=============================================================================
