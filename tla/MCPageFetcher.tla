---------------------------- MODULE MCPageFetcher ----------------------------
(* Two hosts.  p and ps are one page without and with the trailing slash,   *)
(* which normalize_url removes; q is on the other host.                     *)
EXTENDS PageFetcher

CONSTANTS f1, f2, p, ps, q, hp, hq, a1, a2, b1

OneTask  == {f1}
TwoTasks == {f1, f2}
AllPages == {p, ps, q}
TwoPages == {p, q}
AllHosts == {hp, hq}
AllAddresses == {a1, a2, b1}
TwoPublic == {a1, b1}

MCHostOf == [x \in Pages |-> IF x = q THEN hq ELSE hp]
MCOwnerOf == [x \in AllAddresses |-> IF x = b1 THEN hq ELSE hp]
MCCanonical == [x \in Pages |-> IF x = ps THEN p ELSE x]

(* A server may do anything. *)
Anything == [x \in Pages |-> Answers]

(* The server of p sends every client from p to ps, and serves ps. *)
SlashServer == [x \in Pages |-> IF x = p THEN {ps} ELSE {NoLocation}]
=============================================================================
