------------------------------- MODULE KubeClient -------------------------------
(***************************************************************************)
(* The clients of the Kubernetes objects: how a client finds its cluster,  *)
(* keeps it, and what its operations check before they call the API server *)
(* of that cluster.  The environment, from which a client without a        *)
(* kubeconfig path reads its cluster, may change between two calls, and   *)
(* any call of the API server may fail.                                    *)
(***************************************************************************)
EXTENDS Naturals, Sequences, FiniteSets, Functions

CONSTANTS
  Clusters,
  NoCluster,     \* there is no cluster, or none yet
  Home,          \* the cluster the process runs in, if any
  Names,         \* the names of objects
  Collections,   \* the lists of names given to CreateCollection
  MaxCalls

ASSUME KubeClientAssumption ==
  /\ NoCluster \notin Clusters /\ Home \in Clusters \cup {NoCluster}
  /\ Collections \subseteq Seq(Names) /\ MaxCalls \in Nat

\* "" is no name: it stands for the argument that was not given.
ASSUME NamesAssumption == "" \notin Names

VARIABLES
  env,       \* the cluster OPENEBS_IO_KUBE_CONFIG or OPENEBS_IO_K8S_MASTER names
  client,    \* the client: kind, kubeconfig path, cached clientset and config
  objects,   \* the objects: <<cluster, name>>
  coll,      \* the CreateCollection under way: the list and the names created
  last,      \* the last call and its outcome
  moved,     \* env has changed while the client had its clientset and not yet its config
  sent       \* the number of calls so far

clientVars == <<env, client, objects, coll, last, moved, sent>>

\* What each operation needs before a cluster is looked up.
podOperations == [Get |-> "name", Delete |-> "name", Create |-> "object", List |-> "nothing",
                  DeleteCollection |-> "nothing", Exec |-> "nothing"]
eventOperations == [List |-> "nothing"]
pvcOperations == [Get |-> "name", Delete |-> "name", Create |-> "object", Update |-> "object",
                  List |-> "nothing", DeleteCollection |-> "nothing", CreateCollection |-> "list"]
pvOperations == [Get |-> "name", Delete |-> "name", Create |-> "nothing", List |-> "nothing",
                 DeleteCollection |-> "nothing"]
scOperations == [Get |-> "name", Delete |-> "name", Create |-> "object", Update |-> "object",
                 List |-> "nothing", DeleteCollection |-> "nothing", CreateCollection |-> "list"]
deploymentOperations == [Get |-> "nothing", Delete |-> "name", Create |-> "object",
                         Update |-> "object", List |-> "nothing", Patch |-> "nothing"]

Operations ==
  [pod |-> podOperations, event |-> eventOperations, pvc |-> pvcOperations,
   pv |-> pvOperations, sc |-> scOperations, deployment |-> deploymentOperations]

\* Where a client of this package finds its cluster: the path it was given, the
\* flag for the own cluster, the environment, the own cluster.
ConfigFor(path, inCluster) ==
  IF path # NoCluster THEN path
  ELSE IF ~inCluster /\ env # NoCluster THEN env ELSE Home

\* The clients are made without the flag.
getClientsetForPathOrDirect == ConfigFor(client.path, FALSE)
getKubeConfigForPathOrDirect == ConfigFor(client.path, FALSE)

\* Mutant of getClientsetOrCached: nothing is cached.
getClientset == getClientsetForPathOrDirect

getClientsetOrCached ==
  IF client.clientset # NoCluster THEN client.clientset ELSE getClientsetForPathOrDirect

getKubeConfigOrCached ==
  IF client.config # NoCluster THEN client.config ELSE getKubeConfigForPathOrDirect

CallOf(op, ok, cluster, config) == [op |-> op, ok |-> ok, cluster |-> cluster, config |-> config]
NoCall == CallOf("none", TRUE, NoCluster, NoCluster)
Collection(list, created, began) == [list |-> list, created |-> created, began |-> began]
NoCollection == Collection(<<>>, <<>>, {})

\* The client keeps its clientset and its config.
Caches(clientset, config) ==
  client' = [kind |-> client.kind, path |-> client.path, clientset |-> clientset, config |-> config]

ClientInit ==
  /\ env \in Clusters \cup {NoCluster}
  /\ client \in [kind : DOMAIN Operations, path : Clusters \cup {NoCluster},
                 clientset : {NoCluster}, config : {NoCluster}]
  /\ objects = {} /\ coll = NoCollection /\ last = NoCall /\ moved = FALSE /\ sent = 0

ChangeEnv ==
  /\ env' \in (Clusters \cup {NoCluster}) \ {env}
  /\ moved' = (moved \/ (client.clientset # NoCluster /\ client.config = NoCluster))
  /\ UNCHANGED <<client, objects, coll, last, sent>>

Offers(op) == sent < MaxCalls /\ coll = NoCollection /\ op \in DOMAIN Operations[client.kind]
CountCall == sent' = sent + 1

\* The check of the argument fails, or there is no cluster: nothing is kept.
Refused(op, arg) ==
  /\ Offers(op) /\ CountCall
  /\ \/ arg = "" /\ Operations[client.kind][op] # "nothing"
     \/ getClientsetOrCached = NoCluster
  /\ last' = CallOf(op, FALSE, NoCluster, NoCluster)
  /\ UNCHANGED <<env, client, objects, coll, moved>>

\* A call reaches the cluster, which may fail it.
Reaches(op, arg) ==
  /\ Offers(op) /\ CountCall
  /\ arg # "" \/ Operations[client.kind][op] = "nothing"
  /\ getClientsetOrCached # NoCluster
  /\ Caches(getClientsetOrCached, client.config)
  /\ UNCHANGED <<env, coll, moved>>

Outcome(op, ok) == last' = CallOf(op, ok, getClientsetOrCached, NoCluster)

Create(n) ==
  /\ Reaches("Create", n)
  /\ \E ok \in BOOLEAN :
       /\ ok => n # "" /\ <<getClientsetOrCached, n>> \notin objects
       /\ objects' = IF ok THEN objects \cup {<<getClientsetOrCached, n>>} ELSE objects
       /\ Outcome("Create", ok)

Delete(n) ==
  /\ Reaches("Delete", n)
  /\ \E ok \in BOOLEAN :
       /\ ok => <<getClientsetOrCached, n>> \in objects
       /\ objects' = IF ok THEN objects \ {<<getClientsetOrCached, n>>} ELSE objects
       /\ Outcome("Delete", ok)

DeleteCollection ==
  /\ Reaches("DeleteCollection", "")
  /\ \E ok \in BOOLEAN :
       /\ objects' = IF ok THEN {o \in objects : o[1] # getClientsetOrCached} ELSE objects
       /\ Outcome("DeleteCollection", ok)

\* Get, List, Update and Patch add and remove nothing.
Access(op, n) ==
  /\ op \in {"Get", "List", "Update", "Patch"}
  /\ Reaches(op, n)
  /\ UNCHANGED objects
  /\ \E ok \in BOOLEAN : Outcome(op, ok)

\* Exec takes the address of the request from the clientset, its credentials from
\* the config; the command may fail.
Exec ==
  /\ Offers("Exec") /\ CountCall
  /\ getClientsetOrCached # NoCluster
  /\ Caches(getClientsetOrCached, getKubeConfigOrCached)
  /\ \E ok \in BOOLEAN :
       /\ ok => getKubeConfigOrCached # NoCluster
       /\ last' = CallOf("Exec", ok, getClientsetOrCached, getKubeConfigOrCached)
  /\ UNCHANGED <<env, objects, coll, moved>>

\* A list that is empty is refused like one that is not given.
CreateCollection(list) ==
  /\ Offers("CreateCollection") /\ CountCall /\ list # <<>>
  /\ getClientsetOrCached # NoCluster
  /\ Caches(getClientsetOrCached, client.config)
  /\ coll' = Collection(list, <<>>, objects)
  /\ UNCHANGED <<env, objects, last, moved>>

\* Mutant of CreateNext: an object that exists is taken for created.
CreateNextOrKeep ==
  /\ coll # NoCollection /\ Len(coll.created) < Len(coll.list)
  /\ LET n == coll.list[Len(coll.created) + 1]
     IN /\ objects' = objects \cup {<<getClientsetOrCached, n>>}
        /\ coll' = Collection(coll.list, Append(coll.created, n), coll.began)
  /\ UNCHANGED <<env, client, last, moved, sent>>

\* One turn of its loop; the first error ends it, without the list of those made.
CreateNext ==
  /\ coll # NoCollection /\ Len(coll.created) < Len(coll.list)
  /\ LET n == coll.list[Len(coll.created) + 1]
     IN \/ /\ <<getClientsetOrCached, n>> \notin objects
           /\ objects' = objects \cup {<<getClientsetOrCached, n>>}
           /\ coll' = Collection(coll.list, Append(coll.created, n), coll.began)
           /\ UNCHANGED last
        \/ /\ coll' = NoCollection
           /\ Outcome("CreateCollection", FALSE)
           /\ UNCHANGED objects
  /\ UNCHANGED <<env, client, moved, sent>>

CollectionDone ==
  /\ coll # NoCollection /\ Len(coll.created) = Len(coll.list)
  /\ coll' = NoCollection
  /\ Outcome("CreateCollection", TRUE)
  /\ UNCHANGED <<env, client, objects, moved, sent>>

ClientNext ==
  \/ \E n \in Names \cup {""} :
       \/ Create(n) \/ Delete(n)
       \/ \E op \in {"Create", "Delete", "Get", "List", "Update", "Patch", "Exec",
                     "DeleteCollection", "CreateCollection"} : Refused(op, n) \/ Access(op, n)
  \/ DeleteCollection \/ Exec \/ CreateNext \/ CollectionDone \/ ChangeEnv
  \/ \E l \in Collections : CreateCollection(l)

ClientSpec == ClientInit /\ [][ClientNext]_clientVars

-------------------------------------------------------------------------------
\* Whatever becomes of the environment, everything a client made is in one
\* cluster, the one its kubeconfig path names if it has one, and its later
\* calls go there, commands included: what it created it can find and delete.
\* The credentials a command is sent with are those of another cluster only when
\* the client has no path and the environment changed after its first call and
\* before its first command: from then on it keeps both.
ClientStaysInOneCluster ==
  /\ \A o \in objects : /\ o[1] = client.clientset
                        /\ client.path # NoCluster => o[1] = client.path
  /\ last.cluster # NoCluster => last.cluster = client.clientset
  /\ last.op = "Exec" /\ last.config # NoCluster /\ (client.path # NoCluster \/ ~moved) =>
       last.config = client.clientset

\* CreateCollection succeeds only when it created every object of its list
\* itself: after a failure half way a repeated call does not succeed with the
\* rest, and two objects of a list never share a name.
SucceedsWithNew ==
  CollectionDone =>
    /\ Cardinality(Range(coll.list)) = Len(coll.list)
    /\ \A o \in coll.began : o[1] = client.clientset => o[2] \notin Range(coll.list)

CollectionIsNew == [][SucceedsWithNew]_clientVars
===============================================================================
