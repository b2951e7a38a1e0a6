------------------------------ MODULE CallOrder ------------------------------
(***************************************************************************)
(* What a chain of links promises the calls put into it, whatever simulates *)
(* the network on the way: a call is read at most once; a reliable one not *)
(* before an earlier reliable one of its link; and none once it is too     *)
(* late for it, its link having been left since it was made.               *)
(***************************************************************************)
EXTENDS Naturals, Sequences

CONSTANT Links  \* what calls are ordered along

VARIABLES
    sent,  \* the calls, each with its link, its session and what it passes
    got,   \* the calls read, as indices of sent
    sess,  \* the session this is
    left,  \* of each link, how many calls it is too late for
    gone   \* objects that are no more: their calls need not come

vars == <<sent, got, sess, left, gone>>

Read == {got[k] : k \in DOMAIN got}

Init ==
    /\ sent = <<>> /\ got = <<>> /\ gone = {}
    /\ sess \in Nat /\ left = [l \in Links |-> 0]

\* A call enters its link.  It may pass calls made before it.
Call ==
    \E c \in {sent'[k] : k \in DOMAIN sent'} :
        /\ sent' = Append(sent, c)
        /\ c.link \in Links
        /\ c.at = sess
        /\ c.over \subseteq DOMAIN sent
        /\ UNCHANGED <<got, sess, left, gone>>

\* Reliable calls of this session, earlier on i's link and not too late, that
\* i may not leave out.
Before(i) ==
    {e \in 1 .. (i - 1) : /\ sent[e].link = sent[i].link
                          /\ sent[e].rel
                          /\ sent[e].at = sess /\ e > left[sent[i].link]
                          /\ sent[e].obj \notin gone
                          /\ e \notin sent[i].over}

\* No reliable call of i's link that i did not let pass was read before it.
NotPassed(i) ==
    \A e \in Read : (sent[e].link = sent[i].link /\ sent[e].rel)
                       => e < i \/ i \in sent[e].over

ReadNext ==
    \E i \in DOMAIN sent \ Read :
        /\ i > left[sent[i].link]
        /\ sent[i].rel => Before(i) \subseteq Read /\ NotPassed(i)
        /\ got' = Append(got, i)
        /\ UNCHANGED <<sent, sess, left, gone>>

\* A session begins, or links are left: none of the calls made comes any more.
Sessions ==
    /\ sess' \in {sess, sess + 1}
    /\ left' \in [Links -> 0 .. Len(sent)]
    /\ \A l \in Links : left'[l] >= left[l]
    /\ UNCHANGED <<sent, got, gone>>

Free ==
    /\ gone \subseteq gone'
    /\ UNCHANGED <<sent, got, sess, left>>

Next == Call \/ ReadNext \/ Sessions \/ Free

Spec == Init /\ [][Next]_vars
=============================================================================
