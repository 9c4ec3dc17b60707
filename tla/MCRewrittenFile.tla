-------------------------- MODULE MCRewrittenFile ---------------------------
(* The parts of rewriting a file.  Its text is taken apart into functions, *)
(* its code is laid out again around the points, its tables link it to the *)
(* tool; the tool asks for the line of an address and the name of a        *)
(* function that is called.  A behaviour is about one of them.             *)
EXTENDS MCPointLayout

CONSTANT Extension
VARIABLES part,
          step, before, elf, hash, tool, todoLinks, slots, pushed, data,
          text, found, objects, exposed, safety, bytes,
          stage, meant, program, extras, regs, rows, files, sorted,
          file, functionList, next, sites
linkVars == <<step, before, elf, hash, tool, todoLinks, slots, pushed, data>>
textVars == <<text, found, objects, exposed, safety, bytes>>
lineVars == <<meant, program, extras, regs, rows, files, sorted>>
callVars == <<file, functionList, next, sites>>

Some == INSTANCE SomeFiles
Linked == INSTANCE DynamicLinking WITH Files <- Some!AllFiles, Hashes <- Some!AllHashes, Tools <- Some!AllTools,
                                       phase <- step, todo <- todoLinks
Rooms == INSTANCE ProgramText WITH Sections <- << >>, Texts <- {}
Others == INSTANCE SomePrograms WITH RoomForJumps <- Rooms!RoomForJumps
Texts == INSTANCE ProgramText WITH Sections <- Others!TextSections, Texts <- Others!SomeTexts
\* The numbers of the assembler: of special opcodes, and of the standard ones.
Lines == INSTANCE LineTable WITH LineBase <- -5, LineRange <- 14, OpcodeBase <- 13, Starts <- {0, 64, 84},
                                 AddressSteps <- {0, 3, 20}, LineSteps <- {-70, 8, 80}, MaxRows <- 4, MaxTables <- 2
Calls == INSTANCE CallSites WITH Programs <- Others!SomeCallers, NumSyms <- 3

-----------------------------------------------------------------------------
None == << >>
NoCode == /\ phase = "none" /\ edges = None /\ order = None /\ code = None /\ at = None /\ freeText = None
          /\ anchors = None /\ offset = None /\ dynamic = None /\ tramp = None /\ todo = None /\ pending = None
NoTables == /\ step = "none" /\ before = None /\ elf = None /\ hash = None /\ tool = None /\ todoLinks = None
            /\ slots = None /\ pushed = None /\ data = None
NoText == text = None /\ found = None /\ objects = None /\ exposed = None /\ safety = None /\ bytes = None
NoLines == meant = None /\ program = None /\ extras = None /\ regs = None /\ rows = None /\ files = None /\ sorted = None
NoCalls == file = None /\ functionList = None /\ next = None /\ sites = None
FileInit == \/ part = "code" /\ Init /\ NoTables /\ NoText /\ stage = "none" /\ NoLines /\ NoCalls
            \/ part = "tables" /\ Linked!Init /\ NoCode /\ moved = None /\ NoText /\ stage = "none" /\ NoLines /\ NoCalls
            \/ part = "text" /\ Texts!Init /\ NoCode /\ NoTables /\ NoLines /\ NoCalls
            \/ part = "lines" /\ Lines!Init /\ NoCode /\ moved = None /\ NoTables /\ NoText /\ NoCalls
            \/ part = "calls" /\ Calls!Init /\ NoCode /\ moved = None /\ NoTables /\ NoText /\ stage = "none" /\ NoLines
FileNext == \/ part = "code" /\ Next /\ UNCHANGED <<part, linkVars, textVars, stage, lineVars, callVars>>
            \/ part = "tables" /\ Linked!Next /\ UNCHANGED <<part, vars, textVars, stage, lineVars, callVars>>
            \/ part = "text" /\ Texts!Next
                 /\ UNCHANGED <<part, phase, edges, order, code, at, freeText, anchors, offset, dynamic, tramp, todo, pending,
                                linkVars, lineVars, callVars>>
            \/ part = "lines" /\ Lines!Next /\ UNCHANGED <<part, vars, linkVars, textVars, callVars>>
            \/ part = "calls" /\ Calls!Next /\ UNCHANGED <<part, vars, linkVars, textVars, stage, lineVars>>
FileSpec == FileInit /\ [][FileNext]_<<part, vars, linkVars, textVars, stage, lineVars, callVars>>

-----------------------------------------------------------------------------
\* What holds of the tables (DynamicLinking): everything is where it is expected
\* to be and loaded there, the program's own names are still found, and what is added is linked as it was declared.
LoadedWhereExpected == part = "tables" => Linked!LoadedWhereExpected
LinkedAsDeclared == part = "tables" => Linked!LinkedAsDeclared
\* What holds of the text (ProgramText): every function symbol begins a
\* function, and where nothing was moved the program's bytes are written back.
TextWhole == part = "text" => Texts!TextWhole
\* What tools are told (LineTable, CallSites): the line that an address is
\* about, and the function that a call calls.
TablesAnswer == /\ part = "lines" => Lines!LinesFound
                /\ part = "calls" => Calls!CallsReplaced
=============================================================================
