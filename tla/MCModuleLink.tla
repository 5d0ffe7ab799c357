---------------------------- MODULE MCModuleLink ----------------------------
(* Instances of ModuleLink for TLC. *)
EXTENDS ModuleContract

MCSymmetry == Permutations(Modules)

(* What Next and the invariants about the lists look at: neither the numbers *)
(* of the commands nor the packets that a module has read.                  *)
Unnumbered(q) == [i \in DOMAIN q |-> <<q[i].mod, q[i].text, q[i].last>>]

MCView ==
  <<module_list, death_row, fmod, freed, Unnumbered(cqueue), stack, myxgrabcount,
    fMvwmInStartup, isTerminated, packets, inputs, undefined,
    [m \in Modules |->
       <<wire[m].started, wire[m].up, Unnumbered(wire[m].input), InPipe(m)>>]>>
=============================================================================
