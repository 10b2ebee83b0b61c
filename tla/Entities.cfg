SPECIFICATION LiveSpec
CONSTANTS
    Displays = {d1, d2}
    Capabilities = {temperature}
PROPERTIES
    WeatherSwitchFollows
    ReportedSensorAppears
