----------------------------- MODULE HookEvents -----------------------------
(***************************************************************************)
(* The event names of hooks (conformance/adapters/reference.py): the table *)
(* of hook specification A.1, read from a provider's name to the canonical *)
(* one, and the resolution of A.4 from the canonical name to the one a     *)
(* provider reads.  "none" is Python's None.                               *)
(***************************************************************************)
EXTENDS Integers, SequencesExt

CONSTANTS
    HOOK_NATIVES,       \* canonical event -> the set of <<provider, native>>
    SortedEvents,       \* the canonical events as Python sorts them
    PinnedEvents,       \* A.3: natives that belong to one event of several
    HOOK_DIALECTS,      \* provider -> [dialects, default]
    HOOK_RENDER_PINS    \* <<event, provider, dialect>> -> [name, degraded]

CANONICAL_EVENTS == DOMAIN HOOK_NATIVES
HOOK_PROVIDERS == {pair[1] : pair \in UNION {HOOK_NATIVES[e] : e \in CANONICAL_EVENTS}}
Natives == {pair[2] : pair \in UNION {HOOK_NATIVES[e] : e \in CANONICAL_EVENTS}}

\* The tables as they are: a name that belongs to several events is pinned, a name that
\* is that of an event belongs to it alone, and A.4 renders an event without a
\* diagnostic by a name that A.1 has for it.
NamesEvent(native, event) == \E pair \in HOOK_NATIVES[event] : pair[2] = native
ASSUME EventsAssumption ==
    /\ SortedEvents \in Seq(CANONICAL_EVENTS)
    /\ CANONICAL_EVENTS = ToSet(SortedEvents)
    /\ \A native \in Natives, a, b \in CANONICAL_EVENTS :
          (NamesEvent(native, a) /\ NamesEvent(native, b)) =>
              a = b \/ native \in DOMAIN PinnedEvents
    /\ \A native \in Natives \cap CANONICAL_EVENTS :
          native \notin DOMAIN PinnedEvents /\ NamesEvent(native, native)
    /\ \A pin \in DOMAIN HOOK_RENDER_PINS :
          ~HOOK_RENDER_PINS[pin].degraded =>
              /\ pin[1] \in CANONICAL_EVENTS
              /\ NamesEvent(HOOK_RENDER_PINS[pin].name, pin[1])
    /\ PinnedEvents \in [DOMAIN PinnedEvents -> CANONICAL_EVENTS]
    /\ \A provider \in DOMAIN HOOK_DIALECTS :
          HOOK_DIALECTS[provider].default \in HOOK_DIALECTS[provider].dialects

\* The provider has no part in it.
EVENT_MAP_LastRow(native) ==
    SortedEvents[Max({i \in DOMAIN SortedEvents : NamesEvent(native, SortedEvents[i])})]
EVENT_MAP(native) ==
    IF native \in DOMAIN PinnedEvents THEN PinnedEvents[native]
    ELSE SortedEvents[Min({i \in DOMAIN SortedEvents : NamesEvent(native, SortedEvents[i])})]

\* The event of canonical_hook, or "none" for one it does not recognize.
EventOf(name) ==
    IF name \in Natives THEN EVENT_MAP(name)
    ELSE IF name \in CANONICAL_EVENTS THEN name
    ELSE "none"

-----------------------------------------------------------------------------

Undefined(target, dialect) ==   \* hook_render_dialect raises Unsupported
    /\ dialect # "none"
    /\ target \in DOMAIN HOOK_DIALECTS => dialect \notin HOOK_DIALECTS[target].dialects
hook_render_dialect(target, dialect) ==
    IF target \in DOMAIN HOOK_DIALECTS /\ dialect = "none"
    THEN HOOK_DIALECTS[target].default ELSE dialect

NativesAt(event, target) ==
    {pair \in (IF event \in CANONICAL_EVENTS THEN HOOK_NATIVES[event] ELSE {}) :
        pair[1] = target}

render_hook_event(event, target, dialect) ==
    LET names == NativesAt(event, target)
    IN  IF <<event, target, dialect>> \in DOMAIN HOOK_RENDER_PINS
        THEN HOOK_RENDER_PINS[<<event, target, dialect>>]
        ELSE IF target \notin HOOK_PROVIDERS THEN [name |-> event, degraded |-> FALSE]
        ELSE IF Cardinality(names) = 1 /\ target \notin DOMAIN HOOK_DIALECTS
        THEN [name |-> (CHOOSE pair \in names : TRUE)[2], degraded |-> FALSE]
        ELSE [name |-> event, degraded |-> TRUE]

\* A provider no table says anything about for the event.
Unsurveyed(event, provider) ==
    /\ provider \notin HOOK_PROVIDERS
    /\ \A pin \in DOMAIN HOOK_RENDER_PINS : ~(pin[1] = event /\ pin[2] = provider)
=============================================================================
