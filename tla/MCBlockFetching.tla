--------------------------- MODULE MCBlockFetching ---------------------------
(***************************************************************************)
(* BlockFetching for TLC: projects with handlers of one kind or another in *)
(* a data source or only in a template.                                    *)
(***************************************************************************)
EXTENDS BlockFetching

Source(kinds) == [custom |-> FALSE, kinds |-> kinds]
Custom == [custom |-> TRUE, kinds |-> {"event"}]
Project(sources, templates) == [dataSources |-> sources, templates |-> templates]

OnlyEvents == Project({Source({"event"})}, {})
SomeProjects ==
  {OnlyEvents,
   Project({Source({"event"})}, {Source({"event", "call"})}),
   Project({Custom, Source({"block"})}, {})}
=============================================================================
