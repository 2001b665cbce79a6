\* One program after the other; the constants of each stand together.
CONSTANTS
  \* Semaphores, keyboard and pipes.
  SyncId = {8, 101, 420, 421, 422, 423}
  Process = {0, 1, 2, 3, 4, 21, 22, 23, 24}
  InitialValues = {0, 1, 2}
  MAX_LISTENERS = 16
  NoSync = NoSync
  Char = {"v", "newline", "eof", "0", "1", "!", "d", "D", "clear"}
  Zero = "0"
  dim = 2
  KEY_SEM_ID = 8
  Reader = {1, 2}
  Key = {"one", "d"}
  MAX_TOKENS = 3
  CLEAR_SCREEN = "clear"
  EOF = "eof"
  PipeId = {42, 43}
  PIPE_COUNT = 2
  BUFF_SIZE = 2
  PipeChar = {"v", "newline", "eof", "0", "j", "1", "2", "3"}
  NoChar = "0"
  FIRST_SEM = 420
  LeftCommands = {"filter", "invalid"}
  RightCommands = {"wc", "invalid"}
  MaxPipelines = 2
  KeyCap = 4
  Keystrokes = {"v", "newline", "eof"}
  Vowel = {"v"}
  StackByte = {"j"}
  \* synctest
  SEM_ID = 101
  Incrementer = {21, 22}
  Decrementer = {23, 24}
  N = 2
  Flags = {TRUE}
  \* The prompt, the commands and the screen.
  COPY_MAX = 2
  Keyboards = {{"kill", " ", "|", "&", "4"}, {"changeUsername", " ", "&", "4"}}
  BUFFER_SIZE = 6
  MAX_ARGS = 3
  INDEX_BYTE = "index"
  Width = 3
  Height = 2
  Glyph = {"a", "b"}
  Blank = "blank"
  LENGTH_MOD = 4
  MaxWrite = 4
  MaxEchoed = 8
  \* Conversions.
  Numbers = {0, 1, 2, 7, 9, 10, 11, 15, 16, 42, 59, 99, 100, 159, 160, 255, 256, 1000, 4095, 4096, 65535, 70000}
  Bases = {2, 10, 16}
  Letters = {" ", "1", "0", "-", ".", "x"}
  MaxLine = 4
  Delimiter = " "
  \* memtest and schedtest
  Units = 5
  Sizes = {1, 2, 3, 4}
  Null = Null
  MAX_BLOCKS = 3
  MAX_MEMORY = 4
  Other = {}
  MAX_PROCESSES = 2
  LastPid = 7
  \* The image.
  Byte = {0, 1, 2}
  MaxModule = 2
  KernelSize = 2
  Bss = 3
  EndOfKernel = 7
  sampleCodeModuleAddress = 9
  sampleDataModuleAddress = 11
  MemorySize = 13
  Junk = 9
SPECIFICATION ProgramsSpec
INVARIANTS
  PipelineDelivers
  SlotOutlivesUsers
  KeysHaveTokens
  NoUpdateIsLost
  EchoIsTheLine
  ConversionsAgree
  TestsPass
  ModulesArriveWhole
PROPERTIES
  PipesAreStreams
  KeysAreAStream
  ShellComesBack
  ImplementsPrompt
\* The user may stop typing, and a program ends.
CHECK_DEADLOCK FALSE
