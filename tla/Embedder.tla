------------------------------ MODULE Embedder ------------------------------
(***************************************************************************)
(* Embedder objects (include/cyborgdb_embed/embed.hpp, src/embed.cpp) over *)
(* SessionStore.  Each successful open() makes one Impl, which owns the    *)
(* shared session; copies of the object share the Impl.  Here the handles  *)
(* of SessionStore are earned by opens and given up by objects that are    *)
(* copied, moved, assigned to, opened again or destroyed.                  *)
(*                                                                         *)
(* An Impl is named by the number of the open that made it; 0 is a null    *)
(* impl_.  As for any C++ object, callers do not use an Embedder in one    *)
(* thread while another thread opens or assigns it.                        *)
(***************************************************************************)
EXTENDS SessionStore

CONSTANTS
  Objects,  \* Embedder objects of the program
  NoObject  \* none of them

ASSUME EmbedderAssumption == NoObject \notin Objects

VARIABLES
  impl,    \* impl[o]: the Impl that o.impl_ points to
  held,    \* held[n]: the session in Impl n, or on its way into it
  opening  \* opening[t]: the open() that thread t is in

embedderVars == <<entries, shared, loaded, config, model, cfg, promise, handles, call,
                  impl, held, opening>>

Opens == 1..MaxOpens
NotOpening == [open |-> 0, out |-> NoObject, key |-> NoKey]
OpenCalls == [open : Opens, out : Objects, key : Keys]

EmbedderTypeOK ==
  /\ impl \in [Objects -> 0..MaxOpens]
  /\ held \in [Opens -> Ref]
  /\ opening \in [Threads -> OpenCalls \cup {NotOpening}]

EmbedderInit ==
  /\ Init
  /\ impl = [o \in Objects |-> 0]
  /\ held = [n \in Opens |-> 0]
  /\ opening = [t \in Threads |-> NotOpening]

Opening(t) == opening[t] # NotOpening

\* An object that an open under way will write to.
Busy(o) == \E t \in Threads : opening[t].out = o

-----------------------------------------------------------------------------
(* open()                                                                  *)

\* This open, the number that acquire() counts it under.
Open(t, k, o) ==
  [opening EXCEPT ![t] = [open |-> shared' + loaded', out |-> o, key |-> k]]

\* acquire() returns at once, with the live session.
OpenLive(t, k, o) ==
  /\ ~Opening(t) /\ ~Busy(o)
  /\ LiveHit(t, k)
  /\ opening' = Open(t, k, o)
  /\ held' = [held EXCEPT ![shared' + loaded'] = entries[k].session]
  /\ UNCHANGED impl

\* acquire() waits for a session, or builds it.
OpenWaits(t, k, o) ==
  /\ ~Opening(t) /\ ~Busy(o)
  /\ Join(t, k) \/ Lead(t, k)
  /\ opening' = Open(t, k, o)
  /\ UNCHANGED <<impl, held>>

\* Inside acquire().
OpenProceeds(t) ==
  /\ LoadSucceeds(t) \/ LoadFails(t) \/ Publish(t) \/ Get(t)
  /\ UNCHANGED <<impl, held, opening>>

\* The load throws, through acquire() and open().
OpenThrows(t) ==
  /\ LoadThrows(t)
  /\ opening' = [opening EXCEPT ![t] = NotOpening]
  /\ UNCHANGED <<impl, held>>

\* Mutant: `out` is reset where no session comes.
MutAcquired(t) ==
  LET l == call[t].load IN
  /\ Return(t)
  /\ IF promise[l] = "value"
     THEN held' = [held EXCEPT ![opening[t].open] = l] /\ UNCHANGED <<impl, opening>>
     ELSE /\ impl' = [impl EXCEPT ![opening[t].out] = 0]
          /\ opening' = [opening EXCEPT ![t] = NotOpening] /\ UNCHANGED held

\* acquire() returns; without a session open() returns its status, or throws.
Acquired(t) ==
  LET l == call[t].load IN
  /\ Return(t)
  /\ IF promise[l] = "value"
     THEN held' = [held EXCEPT ![opening[t].open] = l] /\ UNCHANGED opening
     ELSE opening' = [opening EXCEPT ![t] = NotOpening] /\ UNCHANGED held
  /\ UNCHANGED impl

\* Mutant: assigning over an Impl gives it up, though copies are left.
MutFrees(new) == {n \in Opens : \E o \in Objects : impl[o] = n /\ new[o] # n}

\* The Impls that no object points to any more once impl is new.
Frees(new) == {n \in Opens : (\E o \in Objects : impl[o] = n) /\ \A o \in Objects : new[o] # n}

\* Objects are made to point elsewhere; the last one off an Impl destroys it.
Point(new) ==
  /\ impl' = new
  /\ IF Frees(new) = {}
     THEN UNCHANGED <<vars, held>>
     ELSE \E n \in Frees(new) : Release(held[n]) /\ held' = [held EXCEPT ![n] = 0]

HasSession(t) == Opening(t) /\ held[opening[t].open] # 0

\* out.impl_ = std::move(impl): an Impl that `out` had goes only now.
Assign(t) ==
  /\ HasSession(t)
  /\ Point([impl EXCEPT ![opening[t].out] = opening[t].open])
  /\ opening' = [opening EXCEPT ![t] = NotOpening]

\* make_shared<Impl>() throws; the session goes with open()'s local.
MakeImplThrows(t) ==
  /\ HasSession(t)
  /\ Release(held[opening[t].open])
  /\ held' = [held EXCEPT ![opening[t].open] = 0]
  /\ opening' = [opening EXCEPT ![t] = NotOpening]
  /\ UNCHANGED impl

-----------------------------------------------------------------------------
(* Copies, moves and destruction                                           *)

\* Mutant: each copy of the object has an Impl of its own.
MutCopy(o, p) ==
  /\ ~Busy(o) /\ ~Busy(p) /\ impl[o] # 0
  /\ handles' = [handles EXCEPT ![held[impl[o]]] = @ + 1]
  /\ impl' = [impl EXCEPT ![p] = impl[o]]
  /\ UNCHANGED <<entries, shared, loaded, config, model, cfg, promise, call, held, opening>>

\* p = o, or the copy constructor into a fresh p.
Copy(o, p) ==
  /\ ~Busy(o) /\ ~Busy(p)
  /\ Point([impl EXCEPT ![p] = impl[o]])
  /\ UNCHANGED opening

\* p = std::move(o), of two objects; onto itself a move changes nothing.
Move(o, p) ==
  /\ ~Busy(o) /\ ~Busy(p) /\ o # p
  /\ Point([impl EXCEPT ![p] = impl[o], ![o] = 0])
  /\ UNCHANGED opening

\* ~Embedder(); the object may be constructed again, closed.
Destroy(o) ==
  /\ ~Busy(o)
  /\ Point([impl EXCEPT ![o] = 0])
  /\ UNCHANGED opening

ConfigureCache == Configure /\ UNCHANGED <<impl, held, opening>>

-----------------------------------------------------------------------------
OpenNext(t) ==
  \/ \E k \in Keys, o \in Objects : OpenLive(t, k, o) \/ OpenWaits(t, k, o)
  \/ OpenProceeds(t) \/ OpenThrows(t) \/ Acquired(t) \/ Assign(t) \/ MakeImplThrows(t)

EmbedderNext ==
  \/ \E t \in Threads : OpenNext(t)
  \/ \E o, p \in Objects : Copy(o, p) \/ Move(o, p)
  \/ \E o \in Objects : Destroy(o)
  \/ ConfigureCache

EmbedderSpec == EmbedderInit /\ [][EmbedderNext]_embedderVars

-----------------------------------------------------------------------------
(* Safety                                                                  *)

\* Somebody owns what open n was given: an object, or the open itself.
Owned(n) ==
  \/ \E o \in Objects : impl[o] = n
  \/ \E t \in Threads : opening[t].open = n

\* The handles that the store knows of are the distinct successful opens still
\* outstanding (include/cyborgdb_embed/embed.hpp:219-220): however the objects are
\* copied, moved, assigned and opened again, none is counted twice and none is lost.
HandlesAreOpens ==
  \A l \in Loads : handles[l] = Cardinality({n \in Opens : held[n] = l /\ Owned(n)})

\* The session of an object lives until the last copy is gone (embed.hpp:134-135).
ValidIsLive == \A o \in Objects : impl[o] # 0 => held[impl[o]] # 0 /\ Alive(held[impl[o]])

\* An open leaves `out` as it was until it succeeds, and then makes it a new handle onto
\* the model asked for, whoever built the session.
OpenSetsOut ==
  [][\A t \in Threads : Opening(t) =>
       LET o == opening[t].out
           n == opening[t].open
       IN  impl'[o] = impl[o] \/ (impl'[o] = n /\ model[held[n]] = opening[t].key)]_embedderVars

\* A model that some object still holds is never loaded again, though that object may
\* be the very one that is being opened (embed.hpp:169-170).
HeldIsNotReloaded ==
  [][\A o \in Objects : impl[o] # 0 /\ loaded' # loaded =>
       model'[loaded'] # model[held[impl[o]]]]_embedderVars

-----------------------------------------------------------------------------
(* Why they hold: what every step maintains.                               *)

\* Opens are numbered as they come; an open under way has a number and an `out` that
\* no other open, and a number that no object, has.
NumberInv ==
  /\ \A o \in Objects : impl[o] <= shared + loaded
  /\ \A n \in Opens : n > shared + loaded => held[n] = 0
  /\ \A t \in Threads : Opening(t) =>
       /\ opening[t].open <= shared + loaded
       /\ \A o \in Objects : impl[o] # opening[t].open
       /\ \A u \in Threads : u # t =>
            opening[u].open # opening[t].open /\ opening[u].out # opening[t].out

\* A thread inside acquire() is in an open that has no session yet, and what the open
\* gets is of the model it asked for.
OpenInv ==
  \A t \in Threads :
    /\ ~Idle(t) => /\ Opening(t) /\ held[opening[t].open] = 0
                   /\ model[call[t].load] = opening[t].key
    /\ HasSession(t) => model[held[opening[t].open]] = opening[t].key

\* An Impl that an object points to has a session, and a session held has an owner.
ImplInv ==
  /\ \A o \in Objects : impl[o] # 0 => held[impl[o]] # 0
  /\ \A n \in Opens : held[n] # 0 => Owned(n)

HeldBy(l) == {n \in Opens : held[n] = l}

CountInv == \A l \in Loads : handles[l] = Cardinality(HeldBy(l))

\* The invariant that every step of the objects preserves.
EmbedderInv == NumberInv /\ OpenInv /\ ImplInv /\ CountInv

-----------------------------------------------------------------------------
(* Refinement of SessionStore                                              *)

\* To the store objects are opens and releases.
ImplementsStore == Init /\ [][Next]_vars
=============================================================================
