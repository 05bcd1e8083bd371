------------------------------- MODULE MCReads -------------------------------
(***************************************************************************)
(* Small instances of the reads.  A day has six ticks.  The zone is fixed, *)
(* or at UTC tick 7, early on day 1, it skips or repeats one local  *)
(* tick.  The feed shares no data with the slots: a behaviour runs one     *)
(* reader, and the other one stays in its initial state.                   *)
(***************************************************************************)
EXTENDS YandexReads, CompanyFeed

CONSTANT Readers

VARIABLE reader

MCZones == {[change |-> 7, before |-> x[1], after |-> x[2]] :
              x \in {<<1, 1>>, <<1, 2>>, <<2, 1>>}}

MCDuration == <<1, 3, 2>>

Night == [weekday |-> 0, starts |-> 4, ends |-> 1]
Morning == [weekday |-> 1, starts |-> 2, ends |-> 5]
WholeDay == [weekday |-> 1, starts |-> 0, ends |-> 5]

\* Overnight and the day after, which may begin in the tick that the change of
\* the zone skips or repeats; exceptions that move the overnight shift and close
\* the day after.
MCSchedules ==
  <<{[rules |-> {Night, WholeDay}, exceptions |-> {}],
     [rules |-> {Night, Morning}, exceptions |-> {}],
     [rules |-> {Night, Morning},
      exceptions |-> {[date |-> 0, shifts |-> {[starts |-> 4, ends |-> 3]}],
                      [date |-> 1, shifts |-> {}]}]},
    {[rules |-> {Morning}, exceptions |-> {}]}>>

MCAssigned == {<<1, 1>>, <<1, 2>>, <<2, 1>>, <<2, 3>>}

MCQuery(from, to, barbers, services, limit) ==
  [from |-> from, to |-> to, barbers |-> barbers, services |-> services, limit |-> limit]

\* Both days; two slots of one barber; beyond the horizon; an empty range.
MCQueries ==
  {MCQuery(0, 1, {1}, {2}, 4), MCQuery(1, 1, {1, 2}, {1}, 2),
   MCQuery(1, 2, {1}, {1}, 4), MCQuery(1, 0, {1}, {1}, 4)}

MCInit ==
  /\ reader \in Readers /\ ReadsInit /\ FeedInit
  /\ reader = "slots" => mapped = {}
  /\ reader = "feed" => schedule = CHOOSE p \in Plans : TRUE

MCNext ==
  /\ UNCHANGED reader
  /\ \/ reader = "slots" /\ ReadsNext /\ UNCHANGED feedVars
     \/ reader = "feed" /\ FeedNext /\ UNCHANGED readVars

MCSpec == MCInit /\ [][MCNext]_<<reader, readVars, feedVars>>
=============================================================================
