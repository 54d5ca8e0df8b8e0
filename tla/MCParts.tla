------------------------------ MODULE MCParts ------------------------------
(* Components that share no state, in one run: each behaviour is one of       *)
(* one of them, and leaves the variables of the others as they began.         *)
EXTENDS PairingHub, PeerLink, PeerLimits, BundleUpdate, HandlePool, FileTasks,
        ContainerStream, AgentSession, TLC

VARIABLE part

allVars == <<part, hubVars, linkVars, limitsVars, bundleVars, handleVars, fileVars, streamVars, agentVars>>

\* What the requests of PeerLimits ask for: the limiters of one kind know
\* nothing of the other kinds, and all of them share the breaker.
KindsOf == [searches |-> {"search"}, calls |-> {"agent"}, files |-> {"file"},
            installs |-> {"push", "rollback"}]

Parts == {"hub", "link", "bundle", "handles", "tasks", "stream", "agent"}
           \cup DOMAIN KindsOf

PartsInit ==
  /\ part \in Parts
  /\ HubInit /\ LinkInit /\ LimitsInit /\ BundleInit /\ HandleInit /\ FilesInit /\ StreamInit
  /\ AgentInit
  /\ part # "files" => quota = CHOOSE n \in Quotas : TRUE
  /\ part # "bundle" => kind = (CHOOSE k \in BundleKinds : TRUE) /\ target = Nothing
  /\ part # "stream" => format = "single"
  /\ part # "tasks" => fs[CHOOSE p \in Paths : TRUE] = CHOOSE c \in FileContents : TRUE

Others(p) ==
  /\ p # "hub" => UNCHANGED hubVars
  /\ p # "link" => UNCHANGED linkVars
  /\ p # "limits" => UNCHANGED limitsVars
  /\ p # "bundle" => UNCHANGED bundleVars
  /\ p # "handles" => UNCHANGED handleVars
  /\ p # "tasks" => UNCHANGED fileVars
  /\ p # "stream" => UNCHANGED streamVars
  /\ p # "agent" => UNCHANGED agentVars

LimitsPart ==
  /\ LimitsNext
  /\ \A r \in LRequests : lreq'[r].kind \in KindsOf[part] \cup {"none"}
  /\ part # "files" => quota' = quota

\* Two works one after the other; once they overlap, nothing is claimed.
BundlePart == ~overlapped /\ BundleNext

PartsNext ==
  /\ UNCHANGED part
  /\ \/ part = "hub" /\ HubNext /\ Others("hub")
     \/ part = "link" /\ LinkNext /\ Others("link")
     \/ part \in DOMAIN KindsOf /\ LimitsPart /\ Others("limits")
     \/ part = "bundle" /\ BundlePart /\ Others("bundle")
     \/ part = "handles" /\ HandleNext /\ Others("handles")
     \/ part = "tasks" /\ FilesNext /\ Others("tasks")
     \/ part = "stream" /\ StreamNext /\ Others("stream")
     \/ part = "agent" /\ AgentNext /\ Others("agent")

PartsSpec == PartsInit /\ [][PartsNext]_allVars

\* A behaviour moves one part only, so that one permutation may exchange the
\* two requests of the pairing hub, the two loops of the agent, and the two
\* works on a bundle.
Along(p, S) ==
  [x \in S |-> IF \A r \in Requests : p[r] = r THEN x ELSE CHOOSE y \in S : y # x]

PartsSymmetry == {p @@ Along(p, Loops) @@ Along(p, Installers) : p \in Permutations(Requests)}
=============================================================================
