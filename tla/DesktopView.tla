----------------------------- MODULE DesktopView -----------------------------
(***************************************************************************)
(* A client that keeps a copy of the desktop's children: it asks for them  *)
(* once with GetChildren and then follows the ChildrenChanged signals of   *)
(* the registry, the way libatspi follows them for an object whose         *)
(* children it has cached (cache_process_children_changed).  Signals that  *)
(* were sent before the reply to GetChildren are processed before it.      *)
(***************************************************************************)
EXTENDS Registry

ASSUME NullAssumption == Null \notin Seq(App \X Path)

VARIABLES joined,  \* the client has its first copy
          view     \* the children it knows, or Null when the copy was dropped

viewVars == <<joined, view>>
allVars == <<vars, viewVars>>

\* impl_GetChildren: the references of the enabled applications, in order.
GetChildren ==
  LET order == InOrder(Enabled(apps))
  IN [i \in DOMAIN order |-> Ref(order[i])]

\* cache_process_children_changed on a cached list of children.
Process(list, s) ==
  IF s.kind \notin {"add", "remove"} \/ list = Null THEN list
  ELSE LET rest == RemoveFirst(list, s.ref)
       IN IF s.kind = "remove" THEN rest
          ELSE IF s.index > Len(rest) THEN Null
          ELSE InsertAt(rest, s.index + 1, s.ref)

\* The list once the signals ss are processed.
Followed(list, ss) ==
  LET after[n \in 0..Len(ss)] == IF n = 0 THEN list ELSE Process(after[n - 1], ss[n])
  IN after[Len(ss)]

\* The client takes its first copy.
Join ==
  /\ ~joined
  /\ joined' = TRUE /\ view' = GetChildren /\ signals' = <<>>
  /\ UNCHANGED <<registryVars, clientVars, inbox>>

\* The client takes the next signal.
Follow ==
  /\ Deliver
  /\ view' = IF joined THEN Process(view, Head(signals)) ELSE view
  /\ UNCHANGED joined

ViewInit == Init /\ joined = FALSE /\ view = <<>>
ViewNext == \/ (RegistryStep \/ ClientStep) /\ UNCHANGED viewVars
            \/ Join \/ Follow
ViewSpec == ViewInit /\ [][ViewNext]_allVars

\* Once the client has processed the signals on their way, its list is the
\* list GetChildren would return, in the same order: adding, removing,
\* disabling and enabling applications all report the right position, and none
\* lies beyond the list it applies to, where the client would drop its copy.
ViewCatchesUp == joined => Followed(view, signals) = GetChildren
=============================================================================
