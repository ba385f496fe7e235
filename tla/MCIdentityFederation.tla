----------------------- MODULE MCIdentityFederation -----------------------
(* TLC instances of IdentityFederation: two people with an identity each, *)
(* of whom the first has a password and an address that the settings link *)
(* accounts by.  The three second actors, a request, a worker and a round *)
(* trip, are not there in one and the same behaviour, which keeps the     *)
(* instance small; with two round trips, all happens at once.             *)
EXTENDS IdentityFederation, TLC
CONSTANTS s1, s2, ann, bob, t2, r2, w2

VARIABLE busy  \* which of the three there is

HomeOf == s1 :> ann @@ s2 :> bob
AdoptedSubjects == {s1}
LocalUsers == {ann}

\* Everybody is linked already or nobody is (two trips begin with nobody, two workers with
\* everybody), there are no passkeys yet, and somebody is signed in at the provider.
InstanceInit ==
    /\ Init /\ busy \in {t2, r2, w2}
    /\ Linked \in {{}, Subject}
    /\ busy = t2 => Linked = {}
    /\ busy = w2 => Linked = Subject
    /\ \A u \in User : ~account[u].passkey
    /\ \A b \in Browser : idp[b] # None

InstanceNext ==
    /\ Next /\ UNCHANGED busy
    /\ busy # t2 => trip'[t2].at = "new"
    /\ busy = t2 => UNCHANGED <<now, turns, round>>
    /\ busy = w2 => slot'[r2] = Idle
    /\ busy = r2 => round'[w2] = Resting

InstanceSpec ==
    /\ InstanceInit /\ [][InstanceNext]_<<vars, busy>>
    /\ \A w \in Worker : busy = w2 \/ (w # w2 /\ busy # t2) => WF_vars(Round(w))
=============================================================================
