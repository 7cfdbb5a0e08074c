------------------------------- MODULE MCUnfold -------------------------------
(* TLC instances of Unfold. *)
EXTENDS Unfold, TLC

CONSTANTS t1, t2, l1, l2, f, g, conf

MCThreads == {t1, t2}
MCLinks == {l1, l2}

\* Every thread meets a folded link of its own, or only one meets a link, or
\* all meet the same one.
OwnLink  == (t1 :> l1) @@ (t2 :> l2)
OneMeets == (t1 :> l1) @@ (t2 :> NoLink)
SameLink == [t \in Threads |-> l1]
AllWalks == {OwnLink, OneMeets, SameLink}
SameWalk == {SameLink}

\* Two files and a directory behind each link.
MCChildren == {f, g, conf}
MCSubdirs  == {conf}

ExchangeWorks   == {TRUE}
ExchangeMayWork == BOOLEAN
NoFaults        == {}
CallsThatFail   == {"mkdir", "opendir", "symlink"}

=============================================================================
