---------------------------- MODULE Descriptions ----------------------------
(***************************************************************************)
(* The builders that describe a service: LoaderDescription and             *)
(* DispatcherDescription of core/src/service, EntityLoader and Dispatcher  *)
(* of effects/src/service. A loader says how events make and change a      *)
(* state, a dispatcher which commands there are, what payloads they take   *)
(* and what their handlers decide. Every registration makes a new builder; *)
(* a name registered twice means what it was registered for last.          *)
(*                                                                         *)
(* The schema of an event is only documentation: no loader looks at it.    *)
(* The schema of a command is the set of the payloads it accepts, and no   *)
(* schema of the repository changes what it accepts.                       *)
(***************************************************************************)

Nobody == [name \in {} |-> name]

\* { ...table, [name]: entry }
Register(table, name, entry) ==
  [n \in DOMAIN table \cup {name} |-> IF n = name THEN entry ELSE table[n]]

-----------------------------------------------------------------------------
\* Loaders.
fromInitFunction(start) ==
  [init |-> start, initializers |-> Nobody, reducers |-> Nobody]

\* Without an init function an aggregate is absent until an initializer makes it.
initializer(loader, event, first) ==
  [loader EXCEPT !.initializers = Register(@, event, first)]

fromInitializer(absent, event, first) ==
  initializer([init |-> absent, initializers |-> Nobody, reducers |-> Nobody], event, first)

reducer(loader, event, change) ==
  [loader EXCEPT !.reducers = Register(@, event, change)]

\* The events a loader knows, whether they begin a state or change it.
eventsOf(loader) == DOMAIN loader.initializers \cup DOMAIN loader.reducers

-----------------------------------------------------------------------------
\* Dispatchers.
create == Nobody

handler(dispatcher, path, schema, decide) ==
  Register(dispatcher, path, [schema |-> schema, decide |-> decide])

commandsOf(dispatcher) == [path \in DOMAIN dispatcher |-> dispatcher[path].schema]

\* dispatch throws HandlerNotFound or CommandValidationError unless this holds.
accepts(dispatcher, path, payload) ==
  path \in DOMAIN dispatcher /\ payload \in dispatcher[path].schema

\* The handler is given what the schema accepted.
dispatch(dispatcher, path, state, payload) == dispatcher[path].decide[state][payload]
=============================================================================
