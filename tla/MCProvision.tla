------------------------------ MODULE MCProvision ------------------------------
EXTENDS Provision

MCDefaultBasePath == <<"/", "var", "/", "openebs", "/", "local">>

Yaml(entries) == [yaml |-> TRUE, entries |-> entries]
Class(reclaim, wait, text) == [exists |-> TRUE, reclaim |-> reclaim, wait |-> wait, text |-> text]

Plain == Yaml(<<Value("StorageType", "hostpath")>>)
Other == Yaml(<<BasePath(<<"/", "mnt", "/", "a">>), Quota("XFSQuota", {}),
                Quota("XFSQuota", {<<"softLimitGrace", "valid">>}),
                List("NodeAffinityLabels", <<"zone">>)>>)
RootBase == Yaml(<<BasePath(<<"/">>)>>)
Device == Yaml(<<Value("StorageType", "device"), Value("FSType", "xfs")>>)
Nameless == Yaml(<<NoEntry>>)
Garbage == [yaml |-> FALSE, entries |-> <<>>]

MCTexts == {Missing, Class("Retain", TRUE, Plain), Class("Delete", FALSE, Plain)}
           \cup {Class("Delete", TRUE, t) : t \in {Plain, Other, RootBase, Device, Nameless, Garbage}}

Claim == [className |-> "sc", beta |-> "none", dataSource |-> "none", selector |-> FALSE,
          accessModes |-> {"ReadWriteOnce"}, volumeMode |-> "Filesystem"]

MCClaims ==
  {Claim,
   [Claim EXCEPT !.className = "other", !.beta = "sc"],
   [Claim EXCEPT !.volumeMode = "Block"],
   [Claim EXCEPT !.accessModes = {"ReadWriteOnce", "ReadWriteMany"}],
   [Claim EXCEPT !.dataSource = "pvc"],
   [Claim EXCEPT !.selector = TRUE]}
===============================================================================
