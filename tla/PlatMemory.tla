------------------------------ MODULE PlatMemory ------------------------------
(* The memory of tiger_plat_posix.c: VirtualAlloc's reservations and the views  *)
(* of files, on a host with more address space than the guest can name.  The    *)
(* kernel takes an address as a hint and may answer with any other; a region    *)
(* the guest could not reach is handed back and asked for again, higher.        *)
EXTENDS Naturals, FiniteSets

CONSTANTS Threads, Top,   \* pages there are
          Reach,          \* pages the guest can name: below 4 GB
          Half,           \* where the hint of VirtualAlloc stops rising: 2 GB
          Start,          \* the first hint
          MaxTable,       \* PLAT_MAX_RESV and PLAT_MAX_VIEW
          MaxTries,       \* 64 in the code
          Sizes, AskedAt          \* what callers ask for, and where

None == Top    \* no address asked for
Kinds == {"reservation", "view"}

VARIABLES
  mapped,   \* the regions the kernel has mapped
  hint,     \* g_low_hint
  table,    \* g_resv and g_views: what each kind can be unmapped by
  held,     \* the regions callers were given and have not returned
  lost,     \* those returned that no table had room for
  at        \* each thread's call

memoryVars == << mapped, hint, table, held, lost, at >>

Idle == [step |-> "idle", kind |-> "view", want |-> None, ask |-> 0, size |-> 1,
         got |-> [base |-> 0, len |-> 0], tries |-> 0]

Init == /\ mapped = {} /\ hint = Start /\ table = [k \in Kinds |-> {}] /\ held = {} /\ lost = {}
        /\ at = [t \in Threads |-> Idle]

Range(base, len) == [base |-> base, len |-> len]
Pages(r) == r.base .. r.base + r.len - 1
Clear(r) == Pages(r) \subseteq 0 .. Top - 1 /\ \A m \in mapped : Pages(m) \cap Pages(r) = {}
Reached(r) == r.base + r.len <= Reach

\* VirtualAlloc with MEM_RESERVE, at an address or anywhere; MapViewOfFile.
Call(t, kind, want, size) ==
  /\ at[t].step = "idle" /\ (want # None => kind = "reservation")
  /\ at' = [at EXCEPT ![t] = [Idle EXCEPT !.step = "ask", !.kind = kind, !.want = want,
                                          !.size = size]]
  /\ UNCHANGED << mapped, hint, table, held, lost >>

\* The hint, under its lock; a retry of VirtualAlloc has its own already.
Ask(t) ==
  /\ at[t].step = "ask"
  /\ at' = [at EXCEPT ![t].step = "map",
                      ![t].ask = IF at[t].want = None THEN hint ELSE at[t].want]
  /\ UNCHANGED << mapped, hint, table, held, lost >>

\* mmap: at the hint where that is clear, and anywhere else, or nowhere.
Fail(t) == at' = [at EXCEPT ![t] = Idle]
Map(t) ==
  /\ at[t].step = "map"
  /\ \/ /\ \E b \in 0 .. Top - 1 :
             LET r == Range(b, at[t].size)
             IN  /\ Clear(r)
                 /\ mapped' = mapped \union {r}
                 /\ at' = [at EXCEPT ![t].step = "check", ![t].got = r]
        /\ UNCHANGED << hint, table, held, lost >>
     \/ Fail(t) /\ UNCHANGED << mapped, hint, table, held, lost >>

\* A declined address is handed back; out of reach, and so is a region too high.
Refused(t) == at[t].want # None /\ at[t].got.base # at[t].want
High(t) == at[t].want = None /\ ~Reached(at[t].got)
Check(t) ==
  /\ at[t].step = "check"
  /\ mapped' = IF Refused(t) \/ High(t) THEN mapped \ {at[t].got} ELSE mapped
  /\ CASE Refused(t) \/ (High(t) /\ at[t].tries = MaxTries) -> Fail(t)
       [] ~Refused(t) /\ High(t) /\ at[t].tries < MaxTries ->
            at' = [at EXCEPT ![t].step = "raise", ![t].tries = @ + 1]
       [] OTHER -> at' = [at EXCEPT ![t].step = IF at[t].kind = "view" \/ at[t].want # None
                                               THEN "record" ELSE "bump"]
  /\ UNCHANGED << hint, table, held, lost >>

\* The next place to try, higher by more each time, and from the bottom again
\* past the top.
Raised(t) == IF hint + at[t].tries + at[t].size > Reach THEN Start ELSE hint + at[t].tries
Raise(t) ==
  /\ at[t].step = "raise"
  /\ hint' = Raised(t)
  /\ at' = IF at[t].kind = "view" THEN [at EXCEPT ![t].step = "ask"]
           ELSE [at EXCEPT ![t].step = "map", ![t].ask = Raised(t)]
  /\ UNCHANGED << mapped, table, held, lost >>

\* VirtualAlloc moves the hint past what it got, below the half.
Bump(t) ==
  /\ at[t].step = "bump"
  /\ LET end == at[t].got.base + at[t].got.len
     IN  hint' = IF end > hint /\ end < Half THEN end ELSE hint
  /\ at' = [at EXCEPT ![t].step = "record"]
  /\ UNCHANGED << mapped, table, held, lost >>

\* resv_add and view_add: a full table forgets it.
Record(t) ==
  /\ at[t].step = "record"
  /\ LET r == at[t].got
         room == Cardinality(table[at[t].kind]) < MaxTable
     IN  /\ table' = IF room THEN [table EXCEPT ![at[t].kind] = @ \union {r}] ELSE table
         /\ held' = held \union {[region |-> r, kind |-> at[t].kind, known |-> room]}
  /\ Fail(t)
  /\ UNCHANGED << mapped, hint, lost >>

\* VirtualFree with MEM_RELEASE and UnmapViewOfFile: by the base, and the length
\* that was remembered; both say they succeeded either way.
Return(h) ==
  LET mine == {r \in table[h.kind] : r.base = h.region.base}
  IN  /\ held' = held \ {h}
      /\ table' = [table EXCEPT ![h.kind] = @ \ mine]
      /\ mapped' = mapped \ mine
      /\ lost' = IF mine = {} THEN lost \union {h.region} ELSE lost
      /\ UNCHANGED << hint, at >>

Next ==
  \/ \E t \in Threads :
       \/ \E k \in Kinds, w \in {None} \union AskedAt, s \in Sizes :
             (w = None \/ w + s <= Reach) /\ Call(t, k, w, s)
       \/ Ask(t) \/ Map(t) \/ Check(t) \/ Raise(t) \/ Bump(t) \/ Record(t)
  \/ \E h \in held : Return(h)

-----------------------------------------------------------------------------
\* Every region a caller holds is one the guest can name, is mapped and shares
\* no page with another, and the kernel has nothing mapped but those, the one a
\* call has in hand, and what a full table forgot: no retry leaks
\* (VirtualAlloc, plat_mmap_low, VirtualFree).
InHand == {at[t].got : t \in {u \in Threads : at[u].step \in {"check", "bump", "record"}}}
MemoryReached ==
  /\ \A h \in held : Reached(h.region) /\ h.region \in mapped
  /\ \A g, h \in held : g # h => Pages(g.region) \cap Pages(h.region) = {}
  /\ mapped = {h.region : h \in held} \union InHand \union lost
  /\ \A k \in Kinds : table[k] = {h.region : h \in {g \in held : g.kind = k /\ g.known}}
=============================================================================
