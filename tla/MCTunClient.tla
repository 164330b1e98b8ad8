---------------------------- MODULE MCTunClient ----------------------------
(***************************************************************************)
(* Instances of TunClient.  The names are real: meap.ztm hashes to 0x0001  *)
(* in its low 16 bits, ci.ztm and wk.ztm hash to one address, auth.ztm to  *)
(* another, and svc.ztm hashes to an address of 100.127.0.0/24.            *)
(***************************************************************************)
EXTENDS TunClient, SequencesExt, Bitwise

CONSTANTS a1, a2

auth == <<97, 117, 116, 104>>
meap == <<109, 101, 97, 112>>
ci == <<99, 105>>
wk == <<119, 107>>
svc == <<115, 118, 99>>

Mixed == {auth, meap, ci, wk}
Colliding == {ci, wk}
OneRouted == {svc}
OneOutside == {svc, auth}

\* The low 16 bits of the hash: the exclusive or and the product pass on low
\* bits only.  40389 and 403 are offset32 and prime32 modulo 2^16.
fnv1a32(s) == FoldLeft(LAMBDA h, c : ((h ^^ c) * 403) % 65536, 40389, s)

Table ==
    [name \in {Name(s) : s \in {auth, meap, ci, wk, svc}} |-> fnv1a32(name)]

\* TLC computes a constant definition such as Table once, one that stands for a
\* CONSTANT at each use.
Hashes == Table

Symmetry == Permutations({a1, a2})
=============================================================================
