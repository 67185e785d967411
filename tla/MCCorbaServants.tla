--------------------------- MODULE MCCorbaServants ---------------------------
(***************************************************************************)
(* The interfaces of demos/corba/Foo.idl: MaximumHello inherits from Baz   *)
(* and Hello, InheritanceTest from MaximumHello.  Baz comes from an        *)
(* imodule of its own, which may be opened too late; Swapped has the bases *)
(* of MaximumHello in the other order, so that Both, with both of them,    *)
(* has no precedence list.  The program's classes are those of corba.scm.  *)
(***************************************************************************)
EXTENDS CorbaServants

MCBases == [Baz |-> <<>>, Hello |-> <<>>, Max |-> <<"Baz", "Hello">>,
            Swapped |-> <<"Hello", "Baz">>,
            Both |-> <<"Baz", "Hello", "Max", "Swapped">>,
            Test |-> <<"Baz", "Hello", "Max">>]
MCOpsOf == [Baz |-> {"haveFun"}, Hello |-> {"doHello"}, Max |-> {"haveMoreFun"},
            Swapped |-> {}, Both |-> {}, Test |-> {"theMegaTest"}]
MCInterfacesOf == [Bar |-> <<"Baz">>,
                   Foo |-> <<"Hello", "Max", "Swapped", "Both", "Test">>]
MCTypesOf == [Bar |-> <<"Color">>, Foo |-> <<"Paint">>]
MCEnumOf == [Color |-> "Color", Paint |-> "Color"]
MCSupers == [hello |-> <<"Hello">>, maximum |-> <<"hello", "Max">>]
MCImplements == {<<"hello", "doHello">>, <<"maximum", "doHello">>, <<"Baz", "haveFun">>}
MCInstantiable == {"maximum"}
MCSymmetry == Permutations(Servants)

\* Only the direct bases of each interface: what the code does not expect
MCDirectBases == [MCBases EXCEPT !.Test = <<"Max">>, !.Both = <<"Max", "Swapped">>]
=============================================================================
