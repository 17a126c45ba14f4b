SPECIFICATION Spec
CONSTANTS
    ENTRIES_AMOUNT = 8
    page_directory = 1
    kernel_tables = 2
    boot_tables = 3
    Frames <- MCFrames
    PAGE_SIZE = 4
    Maps <- MCMaps
    LowMem = 1
    kernel_base = 4
    kernel_end = 6
    PAGES_ARR_SIZE = 23
    DescSize = 1
    INIT_SIZE = 2
    HIGH_VADDR = 24
    MM_AREA_VIRT = 44
    HeapInit = 2
    HeapMax = 4
    Counts = {1, 2}
INVARIANTS
    BitmapExact
    
    TranslationExact
    OneUse
PROPERTIES
    TakenFramesAreMapped
    StartUpCompletes
CHECK_DEADLOCK FALSE
