SPECIFICATION DisplaysSpec
CONSTANTS
    Columns = 2
    Garbage = Garbage
    Nothing = Nothing
    Separator <- MCSeparator
    Texts <- MCTexts
    MaxLate = 2
    Width = 6
    Height = 6
    ColumnOffset = 1
    RowOffset = 2
    Noise = Noise
    Left = Left
    Black = Black
    BandHeight = 4
    ArtArea <- MCArt
    StatusArea <- MCStatus
    ClockArea <- MCClock
    SpectrumArea <- MCSpectrum
    BarWidth = 1
    BarPitch = 2
    ProgressArea <- MCProgress
    KnobWidth = 2
    Line1Area <- MCLine1
    Line2Area <- MCLine2
    Marquee <- MCSeparator
    HeaderHeight = 1
    RowsTop = 2
    RowHeight = 1
    VisibleRows = 3
    ThumbWidth = 1
    RowTextX = 2
    RowMargin = 0
    ScrollbarX = 5
    ScrollbarWidth = 1
    MinThumb = 1
    Duration = 2
    Pictures <- MCPictures
INVARIANTS
    GlassShowsText
    OneScroll
    GlassShowsPicture
    NoiseStaysDark
    ListReadable
PROPERTIES
    ScrollComesRound
