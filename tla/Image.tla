--------------------------------- MODULE Image ---------------------------------
(***************************************************************************)
(* How the user modules get where they run: ModulePacker/main.c appends    *)
(* them to the kernel, the boot loader copies that file to memory (its     *)
(* code is not modelled), and moduleLoader.c and initializeKernelBinary of *)
(* kernel.c copy each module to its address and clear the kernel's bss,    *)
(* which lies on top of the appended modules.                              *)
(*                                                                         *)
(* A size, like a byte, takes one cell.                                    *)
(***************************************************************************)
EXTENDS Integers, Sequences

CONSTANTS Byte,         \* what files are made of, 0 among it
          MaxModule,    \* bound: the size of a module
          KernelSize,   \* endOfKernelBinary
          Bss, EndOfKernel,  \* the bss, at a page boundary after that
          sampleCodeModuleAddress, sampleDataModuleAddress,  \* MaxModule apart
          MemorySize,
          Junk          \* what a cell holds at the start

moduleAddresses == <<sampleCodeModuleAddress, sampleDataModuleAddress>>

ASSUME ByteAssumption == 0 \in Byte /\ Byte \subseteq Nat /\ Junk \in Nat
ASSUME ImageAssumption ==
  /\ MaxModule \in Nat /\ KernelSize \in Nat /\ Bss \in Nat /\ EndOfKernel \in Nat /\ MemorySize \in Nat
  /\ sampleCodeModuleAddress \in Nat /\ sampleDataModuleAddress \in Nat
  /\ KernelSize <= Bss /\ Bss <= EndOfKernel /\ EndOfKernel <= sampleCodeModuleAddress
  /\ KernelSize + 3 + MaxModule + MaxModule <= sampleCodeModuleAddress  \* with two modules
  /\ sampleCodeModuleAddress + MaxModule <= sampleDataModuleAddress
  /\ sampleDataModuleAddress + MaxModule <= MemorySize

VARIABLES
  files,    \* the kernel binary and the modules
  readable, \* those that can be opened
  packed,   \* packedKernel.bin
  appended, \* modules in it
  memory,
  current,  \* currentModule
  loaded,   \* modules loaded
  left,     \* moduleCount less those
  stage

packerVars == <<packed, appended>>
kernelVars == <<memory, current, loaded, left>>
imageVars == <<files, readable, packerVars, kernelVars, stage>>

ImageStart ==
  /\ packed = <<>> /\ appended = 0
  /\ memory = [a \in 0 .. MemorySize - 1 |-> Junk]
  /\ current = 0 /\ loaded = 0 /\ left = 0
  /\ stage = "pack"

\* What n bytes of a file can be.
FileContents(sizes) == UNION {[1 .. n -> Byte] : n \in sizes}
KernelBinary == [i \in 1 .. KernelSize |-> 1]

ImageInit ==
  /\ files \in {<<KernelBinary>> \o modules :
                  modules \in UNION {[1 .. n -> FileContents(0 .. MaxModule)] : n \in 0 .. Len(moduleAddresses)}}
  /\ readable \in {DOMAIN files} \cup {DOMAIN files \ {i} : i \in DOMAIN files}
  /\ ImageStart

(***************************************************************************)
(* The module packer.                                                      *)
(***************************************************************************)
checkFiles == readable = DOMAIN files

\* A 32-bit number in a file.
write_uint32(number) == <<number>>
write_size(file) == write_uint32(Len(file))
\* Until the end of the file, by pieces of the buffer.
write_file(file) == file

extraBinaries == Len(files) - 1

\* The kernel first and how many modules there are.
buildImage ==
  /\ stage = "pack" /\ checkFiles
  /\ packed' = write_file(files[1]) \o write_uint32(extraBinaries)
  /\ stage' = "append"
  /\ UNCHANGED <<files, readable, appended, kernelVars>>

AppendModule ==
  /\ stage = "append" /\ appended < extraBinaries
  /\ packed' = packed \o write_size(files[appended + 2]) \o write_file(files[appended + 2])
  /\ appended' = appended + 1
  /\ UNCHANGED <<files, readable, kernelVars, stage>>

\* Without an image make stops.
PackerFails ==
  /\ stage = "pack" /\ ~checkFiles
  /\ stage' = "no image"
  /\ UNCHANGED <<files, readable, packerVars, kernelVars>>

(***************************************************************************)
(* The start of the kernel.                                                *)
(***************************************************************************)
memset(m, from, value, length) ==
  [a \in DOMAIN m |-> IF a \in from .. from + length - 1 THEN value ELSE m[a]]
\* Forward, cell after cell: as the targets lie above what is copied, no cell is
\* written before it is read.
memcpy(m, destination, source, length) ==
  [a \in DOMAIN m |-> IF a \in destination .. destination + length - 1
                        THEN m[source + a - destination] ELSE m[a]]

Boot ==
  /\ stage = "append" /\ appended = extraBinaries
  /\ memory' = [a \in DOMAIN memory |-> IF a < Len(packed) THEN packed[a + 1] ELSE memory[a]]
  /\ current' = KernelSize
  /\ stage' = "count"
  /\ UNCHANGED <<files, readable, packerVars, loaded, left>>

readUint32(m, address) == m[address]

loadModules ==
  /\ stage = "count"
  /\ left' = readUint32(memory, current) /\ current' = current + 1
  /\ stage' = "load"
  /\ UNCHANGED <<files, readable, packerVars, memory, loaded>>

loadModule ==
  /\ stage = "load" /\ left > 0
  /\ LET moduleSize == readUint32(memory, current) IN
       /\ memory' = memcpy(memory, moduleAddresses[loaded + 1], current + 1, moduleSize)
       /\ current' = current + 1 + moduleSize
  /\ loaded' = loaded + 1 /\ left' = left - 1
  /\ UNCHANGED <<files, readable, packerVars, stage>>

BssSize_WithPayload == MemorySize - Bss
BssSize == EndOfKernel - Bss
clearBSS ==
  /\ stage = "load" /\ left = 0
  /\ memory' = memset(memory, Bss, 0, BssSize)
  /\ stage' = "main"
  /\ UNCHANGED <<files, readable, packerVars, current, loaded, left>>

ImageNext == buildImage \/ AppendModule \/ PackerFails \/ Boot \/ loadModules \/ loadModule \/ clearBSS
ImageSpec == ImageInit /\ [][ImageNext]_imageVars

(***************************************************************************)
(* Properties                                                              *)
(***************************************************************************)

\* When the kernel's main begins, every module is at its address as it was packed, the
\* kernel's own code and data are untouched and its bss is zero, although the bss was
\* where the packed modules had been; and no image is made from files that cannot be read.
ModulesArriveWhole ==
  /\ stage = "main" =>
       /\ loaded = Len(files) - 1
       /\ \A n \in 1 .. loaded : \A i \in DOMAIN files[n + 1] :
            memory[moduleAddresses[n] + i - 1] = files[n + 1][i]
       /\ \A a \in 0 .. KernelSize - 1 : memory[a] = files[1][a + 1]
       /\ \A a \in Bss .. EndOfKernel - 1 : memory[a] = 0
  /\ readable # DOMAIN files => packed = <<>>
================================================================================
