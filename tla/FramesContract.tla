---------------------------- MODULE FramesContract ----------------------------
(***************************************************************************)
(* The program Demo/FramesContractBuilder: the definitions of frames are   *)
(* read from a document (Frames/DataFramesCommon), a class with a function *)
(* for every frame is generated from them (DataFramesContractBuilder, with *)
(* the templates of DataFramesLiterals) and written to two files.  What    *)
(* the generated functions do is what DataFramesFactory does for them.     *)
(*                                                                         *)
(* A name is a text and the case of its first letter and of the others.    *)
(* The generated code is the list of what it declares and calls, in the    *)
(* order of its definition rather than sorted.  A step is an element of    *)
(* the document read, the contract built or a file written.                *)
(***************************************************************************)
EXTENDS Integers, FiniteSets, SequencesExt

CONSTANTS
  Documents, \* sequences of [tag, name, type, priority]
  Types      \* the atom types there are a C++ type and a class for

VARIABLES
  outputPath, \* parameterOutputPath, with a separator at its end or not
  document,   \* the file with the definitions
  elements,   \* of the document that were read
  framesHash, \* upper-case name -> [atoms, priority]
  dataFrame,  \* upper-case name of the last frame read, in a sequence of at most one
  contract,   \* _headerContent and _implementationContent
  files,      \* the two files
  stage,      \* of main(), "crashed" after a null pointer
  reported    \* an error was, of the files

contractVars == <<outputPath, document, elements, framesHash, dataFrame, contract, files, stage, reported>>

Upper(name) == [name EXCEPT !.first = "upper", !.rest = "upper"]
ToNameCase(name) == [name EXCEPT !.first = "upper", !.rest = "lower"]
Argument(name) == [name EXCEPT !.first = "lower"]

(* Names with a star are of frames that are not to be exchanged. *)
Service(name) == name.text = "*"

Empty == [constants |-> <<>>, functions |-> <<>>]

Init ==
  /\ document \in Documents
  /\ elements = 0 /\ framesHash = <<>> /\ dataFrame = <<>>
  /\ contract = [header |-> Empty, implementation |-> Empty]
  /\ files = [header |-> "old", implementation |-> "old"]
  /\ stage = "start" /\ reported = FALSE
  /\ outputPath = "path/"

(* The last argument of a kind counts; help is all there is when asked for.*)
ParseArguments(path) ==
  /\ stage = "start"
  /\ outputPath' = path
  /\ stage' \in {"helped", "parsed"}
  /\ UNCHANGED <<document, elements, framesHash, dataFrame, contract, files, reported>>

(* A directory that does not exist and a wrong name of the project are     *)
(* reported as well.  That there is an error main() does not ask; the path *)
(* is only completed when the definitions are there.                       *)
CheckArguments(exists) ==
  /\ stage = "parsed"
  /\ stage' = "checked"
  /\ reported' = ~exists
  /\ outputPath' = IF exists THEN "path/" ELSE outputPath
  /\ UNCHANGED <<document, elements, framesHash, dataFrame, contract, files>>

(* External: the file is as it was when it was looked for.                 *)
ReadFromFile ==
  /\ stage = "checked"
  /\ stage' = IF reported THEN "read" ELSE "reading"
  /\ UNCHANGED <<outputPath, document, elements, framesHash, dataFrame, contract, files, reported>>

Priority(attribute) == (IF attribute < 1 THEN 1 ELSE attribute) % 256

ParseDataFrameAttributes(attributes) == [atoms |-> <<>>, priority |-> Priority(attributes.priority)]
ParseDataAtomAttributes(attributes) == [name |-> attributes.name, type |-> attributes.type]

(* A later definition of a name replaces the earlier one. *)
AppendDefinition(name, definition) ==
  [key \in DOMAIN framesHash \cup {Upper(name)} |-> IF key = Upper(name) THEN definition ELSE framesHash[key]]

ReadElement ==
  /\ stage = "reading"
  /\ elements < Len(document)
  /\ elements' = elements + 1
  /\ LET element == document[elements + 1]
     IN CASE element.tag = "DataFrame" ->
               /\ framesHash' = AppendDefinition(element.name, ParseDataFrameAttributes(element))
               /\ dataFrame' = <<Upper(element.name)>>
               /\ UNCHANGED stage
          [] element.tag = "DataAtom" /\ dataFrame # <<>> ->
               /\ framesHash' = [framesHash EXCEPT ![dataFrame[1]].atoms =
                                   Append(@, ParseDataAtomAttributes(element))]
               /\ UNCHANGED <<dataFrame, stage>>
          [] element.tag = "DataAtom" /\ dataFrame = <<>> ->
               stage' = "crashed" /\ UNCHANGED <<framesHash, dataFrame>>
          [] element.tag = "error" ->
               stage' = "read" /\ UNCHANGED <<framesHash, dataFrame>>
  /\ UNCHANGED <<outputPath, document, contract, files, reported>>

DocumentRead ==
  /\ stage = "reading"
  /\ elements = Len(document)
  /\ stage' = "read"
  /\ UNCHANGED <<outputPath, document, elements, framesHash, dataFrame, contract, files, reported>>

FramesNames == SetToSeq(DOMAIN framesHash)
ExchangedNames == SelectSeq(FramesNames, LAMBDA name : ~Service(name))

(* Mutant of AddAtomName: names that differ in their case are two names. *)
AddAtomNameAsSpelled(names, atom) == IF Contains(names, atom.name) THEN names ELSE Append(names, atom.name)

AddAtomName(names, atom) ==
  IF \E name \in Range(names) : Upper(name) = Upper(atom.name) THEN names ELSE Append(names, atom.name)

AtomsNames ==
  FoldLeft(LAMBDA names, key : FoldLeft(AddAtomName, names, framesHash[key].atoms), <<>>, FramesNames)

FrameConstant(name) == <<"FRAME_NAME", Upper(name)>>
AtomConstant(name) == <<"ATOM_NAME", Upper(name)>>

HeaderFramesConstants == [i \in DOMAIN ExchangedNames |-> FrameConstant(ExchangedNames[i])]
HeaderAtomsConstants == [i \in DOMAIN AtomsNames |-> AtomConstant(AtomsNames[i])]

ImplementationFramesConstants ==
  [i \in DOMAIN ExchangedNames |-> [constant |-> FrameConstant(ExchangedNames[i]), text |-> Upper(ExchangedNames[i])]]

ImplementationAtomsConstants ==
  [i \in DOMAIN AtomsNames |-> [constant |-> AtomConstant(AtomsNames[i]), text |-> AtomsNames[i]]]

CppType(type) == IF type \in Types THEN type ELSE "UnknownType"

(* The class for a single is named as none is. *)
AtomClass(type) == IF type = "single" THEN "FloatDataAtom" ELSE CppType(type)

FunctionArguments(atoms) ==
  [i \in DOMAIN atoms |-> [type |-> CppType(atoms[i].type), argument |-> Argument(atoms[i].name)]]

AssignAtoms(atoms) ==
  [i \in DOMAIN atoms |->
     [class |-> AtomClass(atoms[i].type), constant |-> AtomConstant(atoms[i].name), argument |-> Argument(atoms[i].name)]]

FunctionDefinition(key) ==
  [name |-> ToNameCase(key), arguments |-> FunctionArguments(framesHash[key].atoms)]

FunctionImplementation(key) ==
  [name |-> ToNameCase(key), arguments |-> FunctionArguments(framesHash[key].atoms),
   frame |-> FrameConstant(key), assigns |-> AssignAtoms(framesHash[key].atoms)]

TemplateHeaderFile(frames, atoms, functions) == [constants |-> frames \o atoms, functions |-> functions]
TemplateImplementationFile(frames, atoms, functions) == [constants |-> frames \o atoms, functions |-> functions]

BuildHeader ==
  TemplateHeaderFile(HeaderFramesConstants, HeaderAtomsConstants,
                     [i \in DOMAIN ExchangedNames |-> FunctionDefinition(ExchangedNames[i])])

BuildImplementation ==
  TemplateImplementationFile(ImplementationFramesConstants, ImplementationAtomsConstants,
                             [i \in DOMAIN ExchangedNames |-> FunctionImplementation(ExchangedNames[i])])

Build ==
  /\ stage = "read"
  /\ contract' = IF framesHash = <<>> THEN contract ELSE [header |-> BuildHeader, implementation |-> BuildImplementation]
  /\ stage' = "header"
  /\ UNCHANGED <<outputPath, document, elements, framesHash, dataFrame, files, reported>>

(* External: a file may not open, and not all may be written.              *)
WriteFile(result) ==
  /\ stage \in DOMAIN files
  /\ files' = [files EXCEPT ![stage] = CASE result = "whole" -> contract[stage]
                                         [] result = "part" -> "part"
                                         [] result = "unopened" -> @]
  /\ reported' = (reported \/ result # "whole")
  /\ stage' = IF stage = "header" THEN "implementation" ELSE "done"
  /\ UNCHANGED <<outputPath, document, elements, framesHash, dataFrame, contract>>

Next ==
  \/ \E path \in {"path", "path/"} : ParseArguments(path)
  \/ \E exists \in BOOLEAN : CheckArguments(exists)
  \/ ReadFromFile \/ ReadElement \/ DocumentRead \/ Build
  \/ \E result \in {"whole", "part", "unopened"} : WriteFile(result)

Spec == Init /\ [][Next]_contractVars

---------------------------------------------------------------------------

(* What the generated functions do: the text of a constant, the frame that *)
(* is built and its atom that an assignment sets.                          *)
TextOf(constant) ==
  LET constants == files.implementation.constants
  IN constants[SelectInSeq(constants, LAMBDA c : c.constant = constant)].text

AtomByDefinition(atom) == [name |-> atom.name, class |-> IF atom.type \in Types THEN atom.type ELSE "nullptr"]

BuildFrame(function) ==
  LET atoms == framesHash[Upper(TextOf(function.frame))].atoms
  IN [i \in DOMAIN atoms |-> AtomByDefinition(atoms[i])]

AtomByName(frame, name) == SelectInSeq(frame, LAMBDA atom : Upper(atom.name) = Upper(name))

(* What the part of the document that was read says.                       *)
Document == SubSeq(document, 1, elements)
FrameElements == {i \in DOMAIN Document : Document[i].tag = "DataFrame"}
LastElement(key) == CHOOSE i \in FrameElements :
  Upper(Document[i].name) = key /\ \A j \in FrameElements : j > i => Upper(Document[j].name) # key
AtomsOf(i) ==
  SelectSeq([j \in 1 .. Len(Document) - i |-> IF \E k \in FrameElements : i < k /\ k <= i + j
                                              THEN [tag |-> "other"] ELSE Document[i + j]],
            LAMBDA element : element.tag = "DataAtom")
Keys == {Upper(Document[i].name) : i \in FrameElements}

(* The atoms of a frame have names of their own and types with a class.    *)
Usable ==
  \A i \in FrameElements :
    /\ \A j, k \in DOMAIN AtomsOf(i) : j # k => Upper(AtomsOf(i)[j].name) # Upper(AtomsOf(i)[k].name)
    /\ \A j \in DOMAIN AtomsOf(i) : AtomsOf(i)[j].type \in Types \ {"single"}

(* A function takes a value for every atom that the document gives the     *)
(* frame, in their order, and sets each atom to its own value as an atom   *)
(* of its class.                                                           *)
SetsEveryAtom(function, atoms) ==
  LET arguments == function.arguments
      frame == BuildFrame(function)
      Sets(j) == SelectSeq(function.assigns, LAMBDA assign : AtomByName(frame, TextOf(assign.constant)) = j)
  IN /\ Len(frame) = Len(atoms) /\ Len(arguments) = Len(atoms)
     /\ IsInjective([j \in DOMAIN arguments |-> arguments[j].argument])
     /\ \A j \in DOMAIN atoms :
          /\ frame[j].name = atoms[j].name
          /\ arguments[j].type = atoms[j].type
          /\ Len(Sets(j)) = 1
          /\ Sets(j)[1].argument = arguments[j].argument
          /\ Sets(j)[1].class = frame[j].class

(* When the program ends without a report, the two files are in the        *)
(* directory asked for, belong together, declare every name once that they *)
(* use, and have a function for every frame to be exchanged that does as   *)
(* the last definition of it says.                                         *)
KeepsContract ==
  stage = "done" /\ ~reported /\ Usable /\ Keys # {} =>
    LET header == files.header
        code   == files.implementation
        declared == [i \in DOMAIN code.constants |-> code.constants[i].constant]
    IN /\ outputPath = "path/"
       /\ header.constants = declared
       /\ header.functions = [i \in DOMAIN code.functions |->
                                [name |-> code.functions[i].name, arguments |-> code.functions[i].arguments]]
       /\ IsInjective(declared) /\ IsInjective([i \in DOMAIN header.functions |-> header.functions[i].name])
       /\ \A function \in Range(code.functions) :
            {function.frame} \cup {assign.constant : assign \in Range(function.assigns)} \subseteq Range(declared)
       /\ \A key \in Keys : LET last == LastElement(key) IN
            /\ ~Service(key) => \E function \in Range(code.functions) :
                                  function.name = ToNameCase(key) /\ SetsEveryAtom(function, AtomsOf(last))
            /\ framesHash[key].priority = IF Document[last].priority < 1 THEN 1 ELSE Document[last].priority
=============================================================================
